---- MODULE Spec2Model ----
(***************************************************************************)
(* Model of the survey/administrative-data pipeline of                     *)
(* public-attitudes-research (python/run_pipeline.py and python/src/*.py). *)
(*                                                                         *)
(* A table (pandas DataFrame) is a record [cols, rows]: cols is the set of *)
(* column names, rows the sequence of rows, each row a function from cols  *)
(* to cells.  A cell is a record [t, s, n, d]:                             *)
(*   t = "na"     a missing value (NaN / None)                             *)
(*   t = "str"    a Python string, s = its characters                      *)
(*   t = "int"    an int64 value n                                         *)
(*   t = "float"  a float64 value, the rational n / d in lowest terms      *)
(* Strings are sequences of one-character strings.                         *)
(***************************************************************************)
EXTENDS Integers, Sequences, FiniteSets, TLC

VARIABLES
    pc,                \* position of main() in run_pipeline.py
    survey_raw,        \* run_pipeline.py:79
    admin_raw,         \* run_pipeline.py:80
    validation,        \* run_pipeline.py:81
    survey_with_geo,   \* run_pipeline.py:93
    admin_by_level,    \* run_pipeline.py:94
    merged_data,       \* run_pipeline.py:103
    merge_validation,  \* run_pipeline.py:104
    matched_comparison,\* run_pipeline.py:106
    data_recoded,      \* run_pipeline.py:115
    data_with_indices, \* run_pipeline.py:116
    data_with_names,   \* run_pipeline.py:117
    data_final,        \* run_pipeline.py:118
    analysis_sample,   \* run_pipeline.py:119
    sample_report,     \* what create_analysis_sample printed about its stages
    include_occupation,\* argument of main() and of create_analysis_sample
    error,             \* the exception that left main(), or "none"
    warnings,          \* the warnings printed so far
    models,            \* run_pipeline.py:128
    icc_results,       \* run_pipeline.py:129
    diagnostics,       \* run_pipeline.py:130
    sensitivity,       \* run_pipeline.py:131
    h3_results,        \* run_pipeline.py:134
    four_level_models, \* run_pipeline.py:144, 148
    four_level_icc,    \* run_pipeline.py:145, 149
    report,            \* run_pipeline.py:176
    model_table,       \* what create_model_table returned (main() does not keep it)
    fits,              \* the calls of smf.mixedlm(...).fit(reml=True) so far
    output             \* the lines printed by the merge checks and the analysis phases

\* the variables of phases 5 and 6
analysis_vars == <<models, icc_results, diagnostics, sensitivity, h3_results,
                   four_level_models, four_level_icc, report, fits, output>>

\* the results of the checks of phases 1 and 3
check_vars == <<validation, merge_validation, matched_comparison>>

vars == <<pc, survey_raw, admin_raw, validation, survey_with_geo, admin_by_level,
          merged_data, merge_validation, matched_comparison, data_recoded, data_with_indices, data_with_names,
          data_final, analysis_sample, sample_report, include_occupation, error,
          warnings, model_table, models, icc_results, diagnostics, sensitivity, h3_results,
          four_level_models, four_level_icc, report, fits, output>>

\* Python's None
None == [none |-> TRUE]

-----------------------------------------------------------------------------
(* Cells *)

NaN == [t |-> "na", s |-> <<>>, n |-> 0, d |-> 1]
Str(x) == [t |-> "str", s |-> x, n |-> 0, d |-> 1]
Int64(v) == [t |-> "int", s |-> <<>>, n |-> v, d |-> 1]

RECURSIVE Gcd(_, _)
Gcd(a, b) == IF b = 0 THEN a ELSE Gcd(b, a % b)

Abs(x) == IF x < 0 THEN -x ELSE x

\* the float n/d (d > 0) in lowest terms
Float(num, den) ==
    LET g == Gcd(Abs(num), den)
    IN [t |-> "float", s |-> <<>>, n |-> num \div g, d |-> den \div g]

\* Series.isna() / Series.notna() of one cell
isna(c) == c.t = "na"
notna(c) == c.t # "na"

-----------------------------------------------------------------------------
(* Strings *)

Digit(k) == <<"0", "1", "2", "3", "4", "5", "6", "7", "8", "9">>[k + 1]

RECURSIVE IntToStr(_)
\* str() of a non-negative integer
IntToStr(k) == IF k < 10 THEN <<Digit(k)>> ELSE IntToStr(k \div 10) \o <<Digit(k % 10)>>

Take(s, k) == SubSeq(s, 1, IF Len(s) < k THEN Len(s) ELSE k)
Drop(s, k) == SubSeq(s, k + 1, Len(s))

RECURSIVE Zeros(_)
Zeros(k) == IF k <= 0 THEN <<>> ELSE <<"0">> \o Zeros(k - 1)

\* the two-character prefixes of the CBS region codes
BU == <<"B", "U">>
WK == <<"W", "K">>
GM == <<"G", "M">>

IsSpace(ch) == ch = " "

RECURSIVE LStrip(_)
LStrip(s) == IF s # <<>> /\ IsSpace(Head(s)) THEN LStrip(Tail(s)) ELSE s

RECURSIVE RStrip(_)
RStrip(s) ==
    IF s # <<>> /\ IsSpace(s[Len(s)]) THEN RStrip(SubSeq(s, 1, Len(s) - 1)) ELSE s

\* str.strip()
Strip(s) == LStrip(RStrip(s))

\* str.zfill(width) on a string without a sign
ZFill(s, width) == IF Len(s) >= width THEN s ELSE Zeros(width - Len(s)) \o s

\* re.sub(r"\.0$", "", s)
ReplaceDotZero(s) ==
    IF Len(s) >= 2 /\ SubSeq(s, Len(s) - 1, Len(s)) = <<".", "0">>
    THEN SubSeq(s, 1, Len(s) - 2)
    ELSE s

\* str(x) of one cell, as Series.astype(str) applies it: a missing value
\* becomes the text "nan", a float with one decimal prints that decimal
AsTypeStr(c) ==
    CASE c.t = "na" -> Str(<<"n", "a", "n">>)
      [] c.t = "str" -> c
      [] c.t = "int" -> Str(IntToStr(c.n))
      [] c.t = "float" ->
            Str(IntToStr(c.n \div c.d) \o <<".">>
                \o <<Digit(((c.n % c.d) * 10) \div c.d)>>)

\* the .str accessor: a method of str applied to the strings, NaN kept
StrZFill(c, width) == IF c.t = "str" THEN Str(ZFill(c.s, width)) ELSE NaN
StrReplaceDotZero(c) == IF c.t = "str" THEN Str(ReplaceDotZero(c.s)) ELSE NaN
StrStrip(c) == IF c.t = "str" THEN Str(Strip(c.s)) ELSE NaN
StrTake(c, k) == IF c.t = "str" THEN Str(Take(c.s, k)) ELSE NaN
StrDrop(c, k) == IF c.t = "str" THEN Str(Drop(c.s, k)) ELSE NaN
StrSlice(c, from, to) == IF c.t = "str" THEN Str(Take(Drop(c.s, from), to - from)) ELSE NaN

-----------------------------------------------------------------------------
(* Tables *)

EmptyFrame == [cols |-> {}, rows |-> <<>>]

\* a function that would write into the very table it was handed
CallerTableShared(argument, working) == working

\* the table the caller holds once a function has returned: every core
\* transformation first takes a deep copy of its argument and writes into the
\* copy only (transform.py:49, 104, 226, 382, 422; analyze.py:101, 221), so
\* what is written into the working table does not reach the caller's table
CallerTable(argument, working) == argument

len(df) == Len(df.rows)

\* df[c] = f(row) for every row (a column assignment)
Assign(df, c, f(_)) ==
    [cols |-> df.cols \cup {c},
     rows |-> [i \in 1..Len(df.rows) |->
                 [x \in df.cols \cup {c} |->
                    IF x = c THEN f(df.rows[i]) ELSE df.rows[i][x]]]]

\* df.loc[mask, c] = v
AssignWhere(df, mask(_), c, v) ==
    [cols |-> df.cols,
     rows |-> [i \in 1..Len(df.rows) |->
                 [x \in df.cols |->
                    IF x = c /\ mask(df.rows[i]) THEN v ELSE df.rows[i][x]]]]

\* the rows whose positions are in S, in order
RowsAt(rows, S) ==
    [k \in 1..Cardinality(S) |->
        rows[CHOOSE i \in S : Cardinality({j \in S : j <= i}) = k]]

\* the rows of a sequence that satisfy keep, in order
SelectRows(rows, keep(_)) == RowsAt(rows, {i \in 1..Len(rows) : keep(rows[i])})

\* all sequences over S of length lo..hi
SeqsUpTo(S, lo, hi) == UNION {[1..k -> S] : k \in lo..hi}

-----------------------------------------------------------------------------
(* transform.py: create_geo_ids *)

\* create_geo_ids taking the wijk prefix from the unpadded text
create_geo_ids_unpadded_wijk(survey) ==
    LET df1 == Assign(survey, "buurt_id",
                      LAMBDA r : StrZFill(StrReplaceDotZero(AsTypeStr(r["Buurtcode"])), 8))
        df2 == AssignWhere(df1, LAMBDA r : isna(r["Buurtcode"]), "buurt_id", NaN)
        df3 == Assign(df2, "wijk_id",
                      LAMBDA r : IF isna(r["buurt_id"]) THEN NaN
                                 ELSE StrTake(StrReplaceDotZero(AsTypeStr(r["Buurtcode"])), 6))
        df4 == Assign(df3, "gemeente_id", LAMBDA r : StrTake(r["buurt_id"], 4))
    IN df4

\* create_geo_ids without lines 60 and 67 (missing codes are not reset)
create_geo_ids_keep_nan_text(survey) ==
    LET df1 == Assign(survey, "buurt_id",
                      LAMBDA r : StrZFill(StrReplaceDotZero(AsTypeStr(r["Buurtcode"])), 8))
        df3 == Assign(df1, "wijk_id", LAMBDA r : StrTake(r["buurt_id"], 6))
        df4 == Assign(df3, "gemeente_id", LAMBDA r : StrTake(r["buurt_id"], 4))
    IN df4

\* create_geo_ids without the removal of the trailing ".0"
create_geo_ids_keep_decimal(survey) ==
    LET df1 == Assign(survey, "buurt_id", LAMBDA r : StrZFill(AsTypeStr(r["Buurtcode"]), 8))
        df2 == AssignWhere(df1, LAMBDA r : isna(r["Buurtcode"]), "buurt_id", NaN)
        df3 == Assign(df2, "wijk_id", LAMBDA r : StrTake(r["buurt_id"], 6))
        df4 == Assign(df3, "gemeente_id", LAMBDA r : StrTake(r["buurt_id"], 4))
    IN df4

create_geo_ids(survey) ==
    LET df1 == Assign(survey, "buurt_id",
                      LAMBDA r : StrZFill(StrReplaceDotZero(AsTypeStr(r["Buurtcode"])), 8))
        df2 == AssignWhere(df1, LAMBDA r : isna(r["Buurtcode"]), "buurt_id", NaN)
        df3 == Assign(df2, "wijk_id", LAMBDA r : StrTake(r["buurt_id"], 6))
        df4 == Assign(df3, "gemeente_id", LAMBDA r : StrTake(r["buurt_id"], 4))
        df5 == AssignWhere(df4, LAMBDA r : isna(r["buurt_id"]), "wijk_id", NaN)
        df6 == AssignWhere(df5, LAMBDA r : isna(r["buurt_id"]), "gemeente_id", NaN)
    IN df6

-----------------------------------------------------------------------------
(* transform.py: prepare_admin_by_level *)

\* the accepted region-code columns, in the order the loop tries them
RegionCodeColumns == <<"region_code", "Codering_3", "WijkenEnBuurten">>

\* the first accepted column the table has, or "none" (region_col is None)
FindRegionCol(admin) ==
    LET hits == {i \in 1..Len(RegionCodeColumns) : RegionCodeColumns[i] \in admin.cols}
    IN IF hits = {} THEN "none"
       ELSE RegionCodeColumns[CHOOSE i \in hits : \A j \in hits : i <= j]

\* a prefix test that takes every unknown prefix for a buurt
RegionTypeOfDefaultBuurt(code) ==
    LET p == Take(code, 2)
    IN CASE p = <<"W", "K">> -> Str(<<"Wijk">>)
         [] p = <<"G", "M">> -> Str(<<"Gemeente">>)
         [] OTHER -> Str(<<"Buurt">>)

\* region_code_clean[:2].map({"BU": ..., "WK": ..., "GM": ...})
RegionTypeOf(code) ==
    LET p == Take(code, 2)
    IN CASE p = <<"B", "U">> -> Str(<<"Buurt">>)
         [] p = <<"W", "K">> -> Str(<<"Wijk">>)
         [] p = <<"G", "M">> -> Str(<<"Gemeente">>)
         [] OTHER -> NaN

\* col_rename: CBS column name -> standard name
ColRename ==
    [AantalInwoners_5 |-> "pop_total",
     k_65JaarOfOuder_12 |-> "pop_over_65",
     WestersTotaal_17 |-> "pop_west",
     NietWestersTotaal_18 |-> "pop_nonwest",
     Bevolkingsdichtheid_33 |-> "pop_dens",
     GemiddeldeWoningwaarde_35 |-> "avg_home_value",
     GemiddeldInkomenPerInkomensontvanger_68 |-> "avg_inc_recip",
     GemiddeldInkomenPerInwoner_69 |-> "avg_inc_pers",
     k_40PersonenMetLaagsteInkomen_70 |-> "perc_low40_pers",
     k_20PersonenMetHoogsteInkomen_71 |-> "perc_high20_pers",
     k_40HuishoudensMetLaagsteInkomen_73 |-> "perc_low40_hh",
     k_20HuishoudensMetHoogsteInkomen_74 |-> "perc_high20_hh",
     HuishoudensMetEenLaagInkomen_75 |-> "perc_low_inc_hh",
     HuishoudensTot110VanSociaalMinimum_77 |-> "perc_soc_min_hh"]

IndicatorVars ==
    {"pop_total", "pop_over_65", "pop_west", "pop_nonwest", "pop_dens",
     "avg_home_value", "avg_inc_recip", "avg_inc_pers",
     "perc_low40_pers", "perc_high20_pers", "perc_low40_hh", "perc_high20_hh",
     "perc_low_inc_hh", "perc_soc_min_hh"}

\* DataFrame.rename(columns=m) for the columns of m the table has
RenameColumns(df, m) ==
    LET new(c) == IF c \in DOMAIN m THEN m[c] ELSE c
        old(c) == CHOOSE x \in df.cols : new(x) = c
    IN [cols |-> {new(c) : c \in df.cols},
        rows |-> [i \in 1..Len(df.rows) |->
                    [c \in {new(x) : x \in df.cols} |-> df.rows[i][old(c)]]]]

\* df[columns]
Project(df, columns) ==
    [cols |-> columns,
     rows |-> [i \in 1..Len(df.rows) |-> [c \in columns |-> df.rows[i][c]]]]

\* no deduplication at all
KeepDuplicates(df, c) == df

\* df.drop_duplicates(subset=[c]): the first row of every value of c

DropDuplicates(df, c) ==
    LET F[i \in 0..Len(df.rows)] ==
            IF i = 0 THEN <<>>
            ELSE IF \E j \in 1..(i - 1) : df.rows[j][c] = df.rows[i][c]
                 THEN F[i - 1]
                 ELSE Append(F[i - 1], df.rows[i])
    IN [cols |-> df.cols, rows |-> F[Len(df.rows)]]

\* the (level, prefix, id_length) triples of the loop
Levels ==
    <<[level |-> "Buurt", key |-> "buurt", prefix |-> "b_", id_length |-> 8],
      [level |-> "Wijk", key |-> "wijk", prefix |-> "w_", id_length |-> 6],
      [level |-> "Gemeente", key |-> "gemeente", prefix |-> "g_", id_length |-> 4]>>

\* admin with region_code_clean, region_type and region_id added and the CBS
\* column names renamed (the table before the loop over the levels)
AdminTagged(admin) ==
    LET region_col == FindRegionCol(admin)
        a1 == Assign(admin, "region_code_clean",
                     LAMBDA r : StrStrip(AsTypeStr(r[region_col])))
        a2 == Assign(a1, "region_type",
                     LAMBDA r : RegionTypeOf(r["region_code_clean"].s))
    IN Assign(a2, "region_id",
              LAMBDA r : StrStrip(StrDrop(r["region_code_clean"], 2)))

\* transform.py:125-146: rename returns a new table
AdminParsed(admin) == RenameColumns(AdminTagged(admin), ColRename)

\* one pass of the loop: the level table of lv
LevelTable(parsed, lv) ==
    LET available_indicators == IndicatorVars \cap parsed.cols
        level_rows == SelectRows(parsed.rows, LAMBDA r : r["region_type"] = Str(<<lv.level>>))
        id_col == lv.key \o "_id"
        level_data == Assign([cols |-> parsed.cols, rows |-> level_rows], id_col,
                             LAMBDA r : StrZFill(r["region_id"], lv.id_length))
        rename_dict == [v \in available_indicators |-> lv.prefix \o v]
        renamed == RenameColumns(level_data, rename_dict)
        kept == Project(renamed, {id_col} \cup {rename_dict[v] : v \in available_indicators})
    IN IF level_rows = <<>> THEN EmptyFrame ELSE DropDuplicates(kept, id_col)

\* the dictionary prepare_admin_by_level returns when it does not raise
prepare_admin_by_level(admin) ==
    LET parsed == AdminParsed(admin)
    IN [buurt |-> LevelTable(parsed, Levels[1]),
        wijk |-> LevelTable(parsed, Levels[2]),
        gemeente |-> LevelTable(parsed, Levels[3])]

-----------------------------------------------------------------------------
(* merge.py: merge_survey_admin *)

\* an inner join: left rows without a match are dropped
InnerMerge(left, right, key) ==
    LET allcols == left.cols \cup right.cols
        join(l, r) == [c \in allcols |-> IF c \in left.cols THEN l[c] ELSE r[c]]
        matches(l) == SelectRows(right.rows, LAMBDA r : r[key] = l[key])
        expand(l) == [j \in 1..Len(matches(l)) |-> join(l, matches(l)[j])]
        F[i \in 0..Len(left.rows)] ==
            IF i = 0 THEN <<>> ELSE F[i - 1] \o expand(left.rows[i])
    IN [cols |-> allcols, rows |-> F[Len(left.rows)]]

\* left.merge(right, on=key, how="left"): every left row once per right row
\* with an equal key (NaN keys match NaN keys), or once with the right
\* columns missing when there is none
LeftMerge(left, right, key) ==
    LET allcols == left.cols \cup right.cols
        join(l, r) == [c \in allcols |-> IF c \in left.cols THEN l[c] ELSE r[c]]
        alone(l) == [c \in allcols |-> IF c \in left.cols THEN l[c] ELSE NaN]
        matches(l) == SelectRows(right.rows, LAMBDA r : r[key] = l[key])
        expand(l) == IF matches(l) = <<>> THEN <<alone(l)>>
                     ELSE [j \in 1..Len(matches(l)) |-> join(l, matches(l)[j])]
        F[i \in 0..Len(left.rows)] ==
            IF i = 0 THEN <<>> ELSE F[i - 1] \o expand(left.rows[i])
    IN [cols |-> allcols, rows |-> F[Len(left.rows)]]

MergeLevel(merged, level_data, key) ==
    IF len(level_data) > 0 THEN LeftMerge(merged, level_data, key) ELSE merged

merge_survey_admin(survey, by_level) ==
    LET m1 == MergeLevel(survey, by_level.buurt, "buurt_id")
        m2 == MergeLevel(m1, by_level.wijk, "wijk_id")
        m3 == MergeLevel(m2, by_level.gemeente, "gemeente_id")
    IN m3

\* the warning of merge.py:79-80
RowCountWarning(survey, merged) ==
    IF len(merged) # len(survey) THEN {"Row count changed"} ELSE {}


-----------------------------------------------------------------------------
(* merge.py: validate_merge, compare_matched_unmatched *)

\* the levels checked and their indicator columns, merge.py:119-123
LevelChecks ==
    <<<<"Buurt", "b_pop_total">>, <<"Wijk", "w_pop_total">>, <<"Gemeente", "g_pop_total">>>>

\* data[c].notna().sum()
NMatched(data, c) == Cardinality({i \in 1..len(data) : notna(data.rows[i][c])})

\* n_matched / total_n * 100 on numpy numbers: 0 / 0 is nan, not an exception
PctMatched(n_matched, total_n) ==
    IF total_n = 0 THEN NaN ELSE Float(n_matched * 100, total_n)

\* "OK" if pct_matched >= 80 else "LOW": a comparison with nan is false
MergeStatus(pct_matched) ==
    IF notna(pct_matched) /\ pct_matched.n >= 80 * pct_matched.d THEN "OK" ELSE "LOW"

\* the MergeValidation record of level k
MergeValidation(data, k) ==
    [level |-> LevelChecks[k][1],
     n_matched |-> NMatched(data, LevelChecks[k][2]),
     n_missing |-> len(data) - NMatched(data, LevelChecks[k][2]),
     pct_matched |-> PctMatched(NMatched(data, LevelChecks[k][2]), len(data))]

\* one record for every level whose indicator column the table has
validate_merge(data) ==
    LET found == SelectRows(<<1, 2, 3>>, LAMBDA k : LevelChecks[k][2] \in data.cols)
    IN [j \in 1..Len(found) |-> MergeValidation(data, found[j])]

\* the line validate_merge prints for level k (the numbers left out)
MergePrint(data, k) ==
    IF LevelChecks[k][2] \notin data.cols
    THEN <<"  Buurt: indicator column not found", "  Wijk: indicator column not found",
           "  Gemeente: indicator column not found">>[k]
    ELSE IF MergeStatus(MergeValidation(data, k).pct_matched) = "OK"
         THEN <<"  Buurt: [OK]", "  Wijk: [OK]", "  Gemeente: [OK]">>[k]
         ELSE <<"  Buurt: [LOW]", "  Wijk: [LOW]", "  Gemeente: [LOW]">>[k]

MergePrints(data) ==
    <<"Validating merge quality...">> \o [k \in 1..3 |-> MergePrint(data, k)]

\* the variables compared, merge.py:237
CandidateVars == <<"DV_single", "age_raw", "education">>

\* the rows of variable v that are non-missing, among the matched rows
\* (m = TRUE) or among the unmatched rows (m = FALSE)
GroupVals(data, v, m) ==
    {i \in 1..len(data) : notna(data.rows[i]["b_pop_total"]) = m /\ notna(data.rows[i][v])}

\* one row for every candidate variable that is a column of the table and has
\* values in both groups; the means and the t test of a row are left out
compare_matched_unmatched(data) ==
    LET tested == IF "b_pop_total" \notin data.cols THEN <<>>
                  ELSE SelectRows(CandidateVars,
                                  LAMBDA v : /\ v \in data.cols
                                             /\ GroupVals(data, v, TRUE) # {}
                                             /\ GroupVals(data, v, FALSE) # {})
    IN [cols |-> IF tested = <<>> THEN {} ELSE {"variable", "matched_n", "unmatched_n"},
        rows |-> [j \in 1..Len(tested) |->
                    [variable |-> Str(<<tested[j]>>),
                     matched_n |-> Int64(Cardinality(GroupVals(data, tested[j], TRUE))),
                     unmatched_n |-> Int64(Cardinality(GroupVals(data, tested[j], FALSE)))]]]

-----------------------------------------------------------------------------
(* extract.py: validate_raw_data; run_pipeline.py: main(), phase 1 *)

\* the least share of respondents with a geocode, in percent (extract.py:290)
MinGeoPct == 90

\* the least number of respondents (extract.py:310)
MinSurveyN == 5000

\* survey["Buurtcode"].notna().sum()
CompleteGeo(survey) == Cardinality({i \in 1..len(survey) : notna(survey.rows[i]["Buurtcode"])})

\* geo_pct < 90 for geo_pct = survey_complete_geo / len(survey) * 100; with no
\* respondent the quotient of the numpy integers is nan and nan < 90 is false
LowGeoCoverage(survey) ==
    len(survey) > 0 /\ 100 * CompleteGeo(survey) < MinGeoPct * len(survey)

\* admin["region_type"].value_counts().get(type, 0)
TypeCount(admin, type) ==
    IF "region_type" \notin admin.cols THEN 0
    ELSE Cardinality({i \in 1..len(admin) : admin.rows[i]["region_type"] = Str(type)})

\* the results dictionary; the messages are held without their numbers
validate_raw_data(survey, admin) ==
    LET geo == IF "Buurtcode" \in survey.cols
               THEN IF LowGeoCoverage(survey)
                    THEN [issues |-> <<"Low geocode coverage">>, passed |-> FALSE]
                    ELSE [issues |-> <<>>, passed |-> TRUE]
               ELSE [issues |-> <<"No Buurtcode column in survey">>, passed |-> FALSE]
        size == IF len(survey) < MinSurveyN
                THEN [issues |-> geo.issues \o <<"Survey N too low">>, passed |-> FALSE]
                ELSE geo
    IN [survey_n |-> len(survey),
        survey_complete_geo |-> IF "Buurtcode" \in survey.cols THEN CompleteGeo(survey) ELSE 0,
        admin_n |-> len(admin),
        admin_buurt |-> TypeCount(admin, <<"B", "u", "u", "r", "t">>),
        admin_wijk |-> TypeCount(admin, <<"W", "i", "j", "k">>),
        admin_gemeente |-> TypeCount(admin, <<"G", "e", "m", "e", "e", "n", "t", "e">>),
        issues |-> size.issues,
        passed |-> size.passed]

\* phase 1 ending main() when the validation has not passed
ValidateRaisingOnFailure ==
    /\ pc = "validate_raw_data"
    /\ UNCHANGED model_table
    /\ UNCHANGED sample_report
    /\ validation' = validate_raw_data(survey_raw, admin_raw)
    /\ IF validation'.passed
       THEN pc' = "create_geo_ids" /\ UNCHANGED <<error, warnings>>
       ELSE /\ pc' = "aborted"
            /\ error' = "ValueError: raw data validation failed"
            /\ UNCHANGED warnings
    /\ UNCHANGED <<survey_raw, admin_raw, survey_with_geo, admin_by_level, merged_data,
                   merge_validation, matched_comparison, data_recoded, data_with_indices,
                   data_with_names, data_final, analysis_sample, include_occupation>>
    /\ UNCHANGED analysis_vars

\* PHASE 1, run_pipeline.py:81-84: a failed validation is only printed
Validate ==
    /\ pc = "validate_raw_data"
    /\ UNCHANGED model_table
    /\ UNCHANGED sample_report
    /\ validation' = validate_raw_data(survey_raw, admin_raw)
    /\ warnings' = IF validation'.passed THEN warnings
                   ELSE warnings \cup {"Warning: Raw data validation failed. Continuing anyway..."}
    /\ pc' = "create_geo_ids"
    /\ UNCHANGED <<survey_raw, admin_raw, survey_with_geo, admin_by_level, merged_data,
                   merge_validation, matched_comparison, data_recoded, data_with_indices,
                   data_with_names, data_final, analysis_sample, include_occupation, error>>
    /\ UNCHANGED analysis_vars

-----------------------------------------------------------------------------
(* run_pipeline.py: main(), phases 2 and 3 *)

\* PHASE 2, run_pipeline.py:93: df["Buurtcode"] of transform.py:52 raises a
\* KeyError on a survey without that column, which ends main()
CreateGeoIds ==
    /\ pc = "create_geo_ids"
    /\ UNCHANGED check_vars
    /\ UNCHANGED model_table
    /\ UNCHANGED sample_report
    /\ IF "Buurtcode" \in survey_raw.cols
       THEN /\ survey_with_geo' = create_geo_ids(survey_raw)
            /\ pc' = "prepare_admin"
            /\ UNCHANGED error
       ELSE /\ error' = "KeyError: 'Buurtcode'"
            /\ pc' = "aborted"
            /\ UNCHANGED survey_with_geo
    /\ survey_raw' = IF "Buurtcode" \in survey_raw.cols
                   THEN CallerTable(survey_raw, create_geo_ids(survey_raw))
                   ELSE survey_raw
    /\ UNCHANGED <<admin_raw, admin_by_level, merged_data, data_recoded,
                   data_with_indices, data_with_names, data_final, analysis_sample,
                   include_occupation, warnings>>
    /\ UNCHANGED analysis_vars

\* phase 2 going on with no level table when no region column is found
PrepareAdminNoRaise ==
    /\ pc = "prepare_admin"
    /\ UNCHANGED check_vars
    /\ UNCHANGED model_table
    /\ UNCHANGED sample_report
    /\ admin_by_level' = IF FindRegionCol(admin_raw) = "none"
                          THEN [buurt |-> [cols |-> {}, rows |-> <<>>],
                                wijk |-> [cols |-> {}, rows |-> <<>>],
                                gemeente |-> [cols |-> {}, rows |-> <<>>]]
                          ELSE prepare_admin_by_level(admin_raw)
    /\ pc' = "merge"
    /\ UNCHANGED <<survey_raw, admin_raw, survey_with_geo, merged_data, data_recoded,
                   data_with_indices, data_with_names, data_final, analysis_sample,
                   include_occupation, error, warnings>>
    /\ UNCHANGED analysis_vars

\* PHASE 2, run_pipeline.py:94: the ValueError of transform.py:113-114 is
\* caught nowhere and ends main()
PrepareAdmin ==
    /\ pc = "prepare_admin"
    /\ UNCHANGED check_vars
    /\ UNCHANGED model_table
    /\ UNCHANGED sample_report
    /\ IF FindRegionCol(admin_raw) = "none"
       THEN /\ error' = "ValueError: Cannot identify region code column in admin data"
            /\ pc' = "aborted"
            /\ UNCHANGED admin_by_level
       ELSE /\ admin_by_level' = prepare_admin_by_level(admin_raw)
            /\ pc' = "merge"
            /\ UNCHANGED error
    /\ admin_raw' = IF FindRegionCol(admin_raw) = "none" THEN admin_raw
                  ELSE CallerTable(admin_raw, AdminTagged(admin_raw))
    /\ UNCHANGED <<survey_raw, survey_with_geo, merged_data, data_recoded,
                   data_with_indices, data_with_names, data_final, analysis_sample,
                   include_occupation, warnings>>
    /\ UNCHANGED analysis_vars

\* PHASE 3, run_pipeline.py:103: merge_survey_admin returns the merged table
\* whatever its row count; a changed row count is only printed
Merge ==
    /\ pc = "merge"
    /\ UNCHANGED check_vars
    /\ UNCHANGED model_table
    /\ UNCHANGED sample_report
    /\ merged_data' = merge_survey_admin(survey_with_geo, admin_by_level)
    /\ warnings' = warnings \cup
                   RowCountWarning(survey_with_geo,
                                   merge_survey_admin(survey_with_geo, admin_by_level))
    /\ pc' = "validate_merge"
    /\ UNCHANGED <<survey_raw, admin_raw, survey_with_geo, admin_by_level, data_recoded,
                   data_with_indices, data_with_names, data_final, analysis_sample,
                   include_occupation, error>>
    /\ UNCHANGED analysis_vars

\* validate_merge ending main() when a level is matched for less than 80 percent
ValidateMergeRaisingOnLowRate ==
    /\ pc = "validate_merge"
    /\ UNCHANGED model_table
    /\ UNCHANGED sample_report
    /\ merge_validation' = validate_merge(merged_data)
    /\ output' = output \o MergePrints(merged_data)
    /\ IF \E k \in 1..3 : /\ LevelChecks[k][2] \in merged_data.cols
                          /\ MergeStatus(MergeValidation(merged_data, k).pct_matched) = "LOW"
       THEN error' = "ValueError: low match rate" /\ pc' = "aborted"
       ELSE error' = error /\ pc' = "compare_matched_unmatched"
    /\ UNCHANGED <<survey_raw, admin_raw, validation, survey_with_geo, admin_by_level,
                   merged_data, matched_comparison, data_recoded, data_with_indices,
                   data_with_names, data_final, analysis_sample, include_occupation,
                   warnings>>
    /\ UNCHANGED <<models, icc_results, diagnostics, sensitivity, h3_results,
                   four_level_models, four_level_icc, report, fits>>

\* PHASE 3, run_pipeline.py:104-105: validate_merge raises nothing and main()
\* goes on whatever it returned.  analyze_missingness (line 105) only prints
\* and its result is read nowhere.
ValidateMerge ==
    /\ pc = "validate_merge"
    /\ UNCHANGED model_table
    /\ UNCHANGED sample_report
    /\ merge_validation' = validate_merge(merged_data)
    /\ output' = output \o MergePrints(merged_data)
    /\ pc' = "compare_matched_unmatched"
    /\ UNCHANGED <<survey_raw, admin_raw, validation, survey_with_geo, admin_by_level,
                   merged_data, matched_comparison, data_recoded, data_with_indices,
                   data_with_names, data_final, analysis_sample, include_occupation,
                   error, warnings>>
    /\ UNCHANGED <<models, icc_results, diagnostics, sensitivity, h3_results,
                   four_level_models, four_level_icc, report, fits>>

\* PHASE 3, run_pipeline.py:106
CompareMatched ==
    /\ pc = "compare_matched_unmatched"
    /\ UNCHANGED model_table
    /\ UNCHANGED sample_report
    /\ matched_comparison' = compare_matched_unmatched(merged_data)
    /\ pc' = "recode"
    /\ UNCHANGED <<survey_raw, admin_raw, validation, survey_with_geo, admin_by_level,
                   merged_data, merge_validation, data_recoded, data_with_indices,
                   data_with_names, data_final, analysis_sample, include_occupation,
                   error, warnings>>
    /\ UNCHANGED analysis_vars

-----------------------------------------------------------------------------
(* Arithmetic on numeric cells; float values are exact rationals *)

IsNum(c) == c.t \in {"int", "float"}

\* the value of a numeric cell as a float cell
AsFloat(c) == IF c.t = "int" THEN Float(c.n, 1) ELSE c

Add(a, b) ==
    IF IsNum(a) /\ IsNum(b) THEN Float(a.n * b.d + b.n * a.d, a.d * b.d) ELSE NaN

Sub(a, b) ==
    IF IsNum(a) /\ IsNum(b) THEN Float(a.n * b.d - b.n * a.d, a.d * b.d) ELSE NaN

\* a * b, the common factors removed before the products are taken
Mul(a, b) ==
    IF IsNum(a) /\ IsNum(b)
    THEN LET g1 == Gcd(Abs(a.n), b.d)
             g2 == Gcd(Abs(b.n), a.d)
         IN Float((a.n \div g1) * (b.n \div g2), (a.d \div g2) * (b.d \div g1))
    ELSE NaN

\* a / b; 0 / 0 is NaN (a non-zero value is never divided by zero here)
Div(a, b) ==
    IF IsNum(a) /\ IsNum(b) /\ b.n # 0
    THEN IF b.n > 0 THEN Mul(a, [t |-> "float", s |-> <<>>, n |-> b.d, d |-> b.n])
         ELSE Mul(a, [t |-> "float", s |-> <<>>, n |-> -b.d, d |-> -b.n])
    ELSE NaN

AbsCell(a) == IF IsNum(a) THEN Float(Abs(a.n), a.d) ELSE NaN

\* a == k for an integer k (a missing value equals nothing)
EqualsInt(a, k) == IsNum(a) /\ a.d = 1 /\ a.n = k

\* the non-missing cells of a sequence of cells
Present(cells) == SelectRows(cells, notna)

RECURSIVE SumCells(_)
SumCells(cells) == IF cells = <<>> THEN Float(0, 1) ELSE Add(Head(cells), SumCells(Tail(cells)))

\* Series.mean() / DataFrame.mean(axis=1): the mean of the non-missing values
Mean(cells) ==
    IF Present(cells) = <<>> THEN NaN
    ELSE Div(SumCells(Present(cells)), Float(Len(Present(cells)), 1))

\* Series.std() squared: the sample variance (ddof = 1) of the non-missing values
Variance(cells) ==
    LET xs == Present(cells)
        m == Mean(cells)
    IN IF Len(xs) < 2 THEN NaN
       ELSE Div(SumCells([i \in 1..Len(xs) |-> Mul(Sub(xs[i], m), Sub(xs[i], m))]),
                Float(Len(xs) - 1, 1))

\* (x - mean) / std.  std is a square root, so a standardized value z is held
\* as sign(z) * z * z, which orders and separates values as z does
Standardized(x, cells) ==
    LET dev == Sub(x, Mean(cells))
        var == Variance(cells)
    IN IF isna(dev) \/ isna(var) \/ var.n = 0 THEN NaN
       ELSE IF dev.n < 0 THEN Sub(Float(0, 1), Div(Mul(dev, dev), var))
            ELSE Div(Mul(dev, dev), var)

\* the cells of column c
Column(df, c) == [i \in 1..len(df) |-> df.rows[i][c]]

\* a lookup that keeps the code when it is not a key
MapIntKeepingUnmapped(c, m) ==
    IF IsNum(c) /\ c.d = 1 /\ c.n \in DOMAIN m THEN Str(<<m[c.n]>>) ELSE c

\* a lookup that keeps a value that is a label already
MapIntKeepingLabels(c, m) ==
    IF c.t = "str" THEN c
    ELSE IF IsNum(c) /\ c.d = 1 /\ c.n \in DOMAIN m THEN Str(<<m[c.n]>>) ELSE NaN

\* Series.map(m) for a dictionary m with integer keys
MapInt(c, m) ==
    IF IsNum(c) /\ c.d = 1 /\ c.n \in DOMAIN m THEN Str(<<m[c.n]>>) ELSE NaN

-----------------------------------------------------------------------------
(* transform.py: recode_survey_variables *)

\* config.py:61
SURVEY_YEAR == 2017

SexMap == (1 :> "Male") @@ (2 :> "Female") @@ (3 :> "Other")

EmploymentMap ==
    (1 :> "Employed") @@ (2 :> "Self-employed") @@ (3 :> "Unemployed") @@ (4 :> "Student")
    @@ (5 :> "Retired") @@ (6 :> "Homemaker") @@ (7 :> "Disabled") @@ (8 :> "Other")

OccupationMap ==
    (1 :> "Modern professional") @@ (2 :> "Clerical") @@ (3 :> "Senior manager")
    @@ (4 :> "Technical") @@ (5 :> "Semi-routine manual") @@ (6 :> "Routine manual")
    @@ (7 :> "Middle manager") @@ (8 :> "Traditional professional")

ClassRankMap ==
    (3 :> 1) @@ (8 :> 2) @@ (1 :> 3) @@ (7 :> 4) @@ (4 :> 5) @@ (2 :> 6) @@ (5 :> 7) @@ (6 :> 8)

DvVars == {"gov_int", "red_inc_diff", "union_pref"}
WealthVars == {"owns_home", "owns_property", "has_savings", "owns_stocks"}

\* x / 6 * 100: the scale taken to start at 0
RescaleFromZero(x) == Mul(Div(x, Float(6, 1)), Float(100, 1))

\* (x - 1) / 6 * 100
Rescale(x) == Mul(Div(Sub(x, Float(1, 1)), Float(6, 1)), Float(100, 1))

\* the mean of the non-missing cells of the columns cs of row r, cs finite
RowMean(r, cs) ==
    LET order == CHOOSE q \in [1..Cardinality(cs) -> cs] : \A c \in cs : \E i \in DOMAIN q : q[i] = c
    IN Mean([i \in 1..Cardinality(cs) |-> r[order[i]]])

\* the sum of the cells of the columns cs of row r, a missing cell counted
\* as 0 (fillna(0) ... sum(axis=1))
RowSum(r, cs) ==
    LET order == CHOOSE q \in [1..Cardinality(cs) -> cs] : \A c \in cs : \E i \in DOMAIN q : q[i] = c
    IN SumCells([i \in 1..Cardinality(cs) |->
                    IF isna(r[order[i]]) THEN Float(0, 1) ELSE r[order[i]]])

\* df[c] = f(row) when the columns "needs" exist, df otherwise
AssignIf(df, needs, c, f(_)) == IF needs \subseteq df.cols THEN Assign(df, c, f) ELSE df

\* df[c] = f(row) when one of the columns "some" exists, df otherwise
AssignIfAny(df, some, c, f(_)) == IF some \cap df.cols # {} THEN Assign(df, c, f) ELSE df

\* df[dst] = (df[src] - df[src].mean()) / df[src].std() when "needs" exist
StandardizeInto(df, needs, src, dst) ==
    IF needs \subseteq df.cols
    THEN [cols |-> df.cols \cup {dst},
          rows |-> [i \in 1..Len(df.rows) |->
                      [x \in df.cols \cup {dst} |->
                         IF x = dst THEN Standardized(df.rows[i][src], Column(df, src))
                         ELSE df.rows[i][x]]]]
    ELSE df

\* the rescaling done in place: the item itself is overwritten by its
\* rescaled value, and DV_single is a copy of it
recode_survey_variables_in_place(data) ==
    LET d1 == AssignIf(data, {"red_inc_diff"}, "red_inc_diff",
                       LAMBDA r : IF EqualsInt(r["red_inc_diff"], 8) THEN NaN
                                  ELSE Rescale(r["red_inc_diff"]))
    IN AssignIf(d1, {"red_inc_diff"}, "DV_single", LAMBDA r : r["red_inc_diff"])

recode_survey_variables(data) ==
    LET \* lines 232-236: 8 (refused) becomes missing
        d1 == [cols |-> data.cols,
               rows |-> [i \in 1..len(data) |->
                           [c \in data.cols |->
                              IF c \in DvVars /\ EqualsInt(data.rows[i][c], 8)
                              THEN NaN ELSE data.rows[i][c]]]]
        \* lines 240-253
        d2 == AssignIf(d1, {"red_inc_diff"}, "DV_single", LAMBDA r : Rescale(r["red_inc_diff"]))
        d3 == AssignIf(d2, {"gov_int", "red_inc_diff"}, "DV_2item",
                       LAMBDA r : RowMean(r, {"gov_int", "red_inc_diff"}))
        d4 == AssignIf(d3, {"gov_int", "red_inc_diff"}, "DV_2item_scaled",
                       LAMBDA r : Rescale(r["DV_2item"]))
        d5 == AssignIf(d4, DvVars, "DV_3item", LAMBDA r : RowMean(r, DvVars))
        d6 == AssignIf(d5, DvVars, "DV_3item_scaled", LAMBDA r : Rescale(r["DV_3item"]))
        \* lines 260-262
        d7 == AssignIf(d6, {"sex"}, "sex", LAMBDA r : MapInt(r["sex"], SexMap))
        \* lines 265-273
        d8 == AssignIf(d7, {"birth_year"}, "age_raw",
                       LAMBDA r : Sub(Int64(SURVEY_YEAR), r["birth_year"]))
        d9 == StandardizeInto(d8, {"birth_year"}, "age_raw", "age")
        d10 == StandardizeInto(d9, {"educyrs"}, "educyrs", "education")
        \* lines 279-305
        d11 == AssignIf(d10, {"work_status"}, "employment_status",
                        LAMBDA r : MapInt(r["work_status"], EmploymentMap))
        d12 == AssignIf(d11, {"work_type"}, "occupation",
                        LAMBDA r : MapInt(r["work_type"], OccupationMap))
        \* lines 311-312
        d13 == AssignIf(d12, {"born_in_nl"}, "born_in_nl", LAMBDA r : AsFloat(r["born_in_nl"]))
        \* lines 319-327
        d14 == AssignIfAny(d13, WealthVars, "wealth_index",
                           LAMBDA r : RowSum(r, WealthVars \cap DOMAIN r))
        d15 == AssignIfAny(d14, WealthVars, "high_wealth",
                           LAMBDA r : IF r["wealth_index"].n >= 2 * r["wealth_index"].d
                                      THEN Int64(1) ELSE Int64(0))
        \* lines 333-349
        d16 == AssignIf(d15, {"occupation_class"}, "professional_class",
                        LAMBDA r : IF \E k \in {1, 3, 7, 8} : EqualsInt(r["occupation_class"], k)
                                   THEN Int64(1) ELSE Int64(0))
        d17 == AssignIf(d16, {"occupation_class"}, "occupation_rank",
                        LAMBDA r : LET c == r["occupation_class"]
                                   IN IF IsNum(c) /\ c.d = 1 /\ c.n \in DOMAIN ClassRankMap
                                      THEN Float(ClassRankMap[c.n], 1) ELSE NaN)
    IN d17

-----------------------------------------------------------------------------
(* transform.py: create_inequality_indices, standardize_context_vars *)

ContextPrefixes == <<"b_", "w_", "g_">>

\* the pass without the additive constant: high20 / |low40|
IndicesOfLevelPlainRatio(df, prefix) ==
    LET low40_col == prefix \o "perc_low40_hh"
        high20_col == prefix \o "perc_high20_hh"
        e1 == Assign(df, prefix \o "income_polarization",
                     LAMBDA r : Add(r[low40_col], r[high20_col]))
        e2 == Assign(e1, prefix \o "income_ratio",
                     LAMBDA r : Div(r[high20_col], AbsCell(r[low40_col])))
    IN IF {low40_col, high20_col} \subseteq df.cols THEN e2 ELSE df

\* one pass of the loop of lines 425-441
IndicesOfLevel(df, prefix) ==
    LET low40_col == prefix \o "perc_low40_hh"
        high20_col == prefix \o "perc_high20_hh"
        e1 == Assign(df, prefix \o "income_polarization",
                     LAMBDA r : Add(r[low40_col], r[high20_col]))
        e2 == Assign(e1, prefix \o "income_ratio",
                     LAMBDA r : Div(r[high20_col], Add(AbsCell(r[low40_col]), Float(1, 100))))
    IN IF {low40_col, high20_col} \subseteq df.cols THEN e2 ELSE df

create_inequality_indices(data) ==
    IndicesOfLevel(IndicesOfLevel(IndicesOfLevel(data, ContextPrefixes[1]),
                                  ContextPrefixes[2]), ContextPrefixes[3])

\* the columns whose name starts with b_, w_ or g_: the prefixed indicators
\* and the indices built from them
ContextColumns ==
    {ContextPrefixes[i] \o v :
        i \in 1..3, v \in IndicatorVars \cup {"income_polarization", "income_ratio"}}

\* df[col].dtype in [np.float64, np.int64, float, int]
IsNumericColumn(df, c) == \A i \in 1..len(df) : df.rows[i][c].t \in {"int", "float", "na"}

\* std_val > 0
HasPositiveStd(df, c) ==
    LET var == Variance(Column(df, c)) IN notna(var) /\ var.n > 0

standardize_context_vars(data) ==
    LET todo == {c \in data.cols \cap ContextColumns :
                    IsNumericColumn(data, c) /\ HasPositiveStd(data, c)}
    IN [cols |-> data.cols,
        rows |-> [i \in 1..len(data) |->
                    [c \in data.cols |->
                        IF c \in todo THEN Standardized(data.rows[i][c], Column(data, c))
                        ELSE data.rows[i][c]]]]

-----------------------------------------------------------------------------
(* transform.py: add_geographic_names_from_admin *)

\* Series.str.startswith(p, na=False) of one cell, p of two characters
StartsWith(c, p) == c.t = "str" /\ Len(c.s) >= 2 /\ SubSeq(c.s, 1, 2) = p

\* the admin table with a region_code column (lines 480-485)
WithRegionCode(admin) ==
    IF "region_code" \in admin.cols THEN admin
    ELSE Assign(admin, "region_code", LAMBDA r : StrStrip(AsTypeStr(r["Codering_3"])))

\* lines 493-500 and 506-513: the names of the rows with prefix p, joined to
\* df on id_col after id_col is turned into text
NamesOfLevel(df, admin, p, id_col, name_col, from_col) ==
    LET level_rows == SelectRows(admin.rows, LAMBDA r : StartsWith(r["region_code"], p))
        lookup_rows == [i \in 1..Len(level_rows) |->
                          [c \in {id_col, name_col} |->
                              IF c = id_col THEN StrStrip(StrDrop(level_rows[i]["region_code"], 2))
                              ELSE StrStrip(level_rows[i][from_col])]]
        lookup == DropDuplicates([cols |-> {id_col, name_col}, rows |-> lookup_rows], id_col)
        as_text == Assign(df, id_col, LAMBDA r : StrStrip(AsTypeStr(r[id_col])))
    IN IF level_rows = <<>> THEN df ELSE LeftMerge(as_text, lookup, id_col)

\* lines 518-530: gemeente names from the buurt rows, keyed by code[2:6]
GemeenteNames(df, admin) ==
    LET level_rows == SelectRows(admin.rows, LAMBDA r : StartsWith(r["region_code"], BU))
        lookup_rows == [i \in 1..Len(level_rows) |->
                          [c \in {"gemeente_id", "gemeente_name"} |->
                              IF c = "gemeente_id"
                              THEN StrStrip(StrSlice(level_rows[i]["region_code"], 2, 6))
                              ELSE StrStrip(level_rows[i]["gemeente_name"])]]
        lookup == DropDuplicates([cols |-> {"gemeente_id", "gemeente_name"},
                                  rows |-> lookup_rows], "gemeente_id")
        as_text == Assign(df, "gemeente_id", LAMBDA r : StrStrip(AsTypeStr(r["gemeente_id"])))
    IN IF level_rows = <<>> THEN df ELSE LeftMerge(as_text, lookup, "gemeente_id")

add_geographic_names_from_admin(data, admin_data) ==
    LET admin == WithRegionCode(admin_data)
        has_names == "WijkenEnBuurten" \in admin.cols
        n1 == IF has_names
              THEN NamesOfLevel(data, admin, BU, "buurt_id", "buurt_name", "WijkenEnBuurten")
              ELSE data
        n2 == IF has_names
              THEN NamesOfLevel(n1, admin, WK, "wijk_id", "wijk_name", "WijkenEnBuurten")
              ELSE n1
        n3 == IF "gemeente_name" \in admin.cols /\ "gemeente_name" \notin n2.cols /\ has_names
              THEN GemeenteNames(n2, admin)
              ELSE n2
    IN IF "region_code" \notin admin_data.cols /\ "Codering_3" \notin admin_data.cols
       THEN data
       ELSE n3


-----------------------------------------------------------------------------
(* merge.py: create_analysis_sample *)

\* config.py:142
MIN_CLUSTER_SIZE == 2

\* config.py:126-132
BUURT_CONTROLS ==
    {"b_pop_dens", "b_pop_over_65", "b_pop_nonwest", "b_perc_low_inc_hh", "b_perc_soc_min_hh"}

\* the list "required" of merge.py:297-320, as a set
RequiredColumns(data, with_occupation) ==
    ({"DV_single", "age", "sex", "education", "employment_status", "born_in_nl", "buurt_id"}
       \cup (BUURT_CONTROLS \cap data.cols)
       \cup (IF "b_perc_low40_hh" \in data.cols THEN {"b_perc_low40_hh"} ELSE {})
       \cup (IF with_occupation /\ "occupation" \in data.cols THEN {"occupation"} ELSE {}))
    \cap data.cols

\* data.dropna(subset=required)
DropNa(data, required) ==
    [cols |-> data.cols,
     rows |-> SelectRows(data.rows, LAMBDA r : \A c \in required : notna(r[c]))]

\* sample[c].value_counts()[v]: the number of rows whose c is v
ValueCount(df, c, v) == Cardinality({i \in 1..len(df) : df.rows[i][c] = v})

\* the exception create_analysis_sample raises, or "none": the percentage of
\* line 328 divides by len(data), and line 331 reads sample["buurt_id"]
SampleError(data) ==
    IF len(data) = 0 THEN "ZeroDivisionError"
    ELSE IF "buurt_id" \notin data.cols THEN "KeyError: 'buurt_id'"
    ELSE "none"

\* the cluster filter applied to the sizes of the clusters of the input
create_analysis_sample_sizes_of_input(data, with_occupation) ==
    LET sample == DropNa(data, RequiredColumns(data, with_occupation))
        valid(r) == ValueCount(data, "buurt_id", r["buurt_id"]) >= MIN_CLUSTER_SIZE
    IN [cols |-> sample.cols, rows |-> SelectRows(sample.rows, valid)]

\* the two filters in the other order: clusters sized on the input, then the
\* complete-case filter
create_analysis_sample_clusters_first(data, with_occupation) ==
    LET valid(r) == /\ notna(r["buurt_id"])
                    /\ ValueCount(data, "buurt_id", r["buurt_id"]) >= MIN_CLUSTER_SIZE
        kept == [cols |-> data.cols, rows |-> SelectRows(data.rows, valid)]
    IN DropNa(kept, RequiredColumns(data, with_occupation))

\* the accounting create_analysis_sample prints, one record for each stage
\* reported, with the numbers the line holds: the complete cases with their
\* count and their share of the input (merge.py:328), the cluster filter with
\* the count alone (merge.py:335).  Nothing is printed when line 328 raises,
\* and the first line alone when line 331 does.
SampleReport(data, with_occupation) ==
    LET sample == DropNa(data, RequiredColumns(data, with_occupation))
        valid(r) == /\ notna(r["buurt_id"])
                    /\ ValueCount(sample, "buurt_id", r["buurt_id"]) >= MIN_CLUSTER_SIZE
        complete == [stage |-> "Complete cases", count |-> len(sample), of |-> len(data),
                     pct |-> Float(len(sample) * 100, len(data))]
    IN IF len(data) = 0 THEN <<>>
       ELSE IF "buurt_id" \notin data.cols THEN <<complete>>
       ELSE <<complete,
              [stage |-> "After cluster filter",
               count |-> Len(SelectRows(sample.rows, valid))]>>

\* the table create_analysis_sample returns when it does not raise
create_analysis_sample(data, with_occupation) ==
    LET sample == DropNa(data, RequiredColumns(data, with_occupation))
        valid(r) == /\ notna(r["buurt_id"])
                    /\ ValueCount(sample, "buurt_id", r["buurt_id"]) >= MIN_CLUSTER_SIZE
    IN [cols |-> sample.cols, rows |-> SelectRows(sample.rows, valid)]

-----------------------------------------------------------------------------
(* run_pipeline.py: main(), phase 4 *)

\* run_pipeline.py:115
Recode ==
    /\ pc = "recode"
    /\ UNCHANGED check_vars
    /\ UNCHANGED model_table
    /\ UNCHANGED sample_report
    /\ data_recoded' = recode_survey_variables(merged_data)
    /\ pc' = "create_inequality_indices"
    /\ merged_data' = CallerTable(merged_data, recode_survey_variables(merged_data))
    /\ UNCHANGED <<survey_raw, admin_raw, survey_with_geo, admin_by_level,
                   data_with_indices, data_with_names, data_final, analysis_sample,
                   include_occupation, error, warnings>>
    /\ UNCHANGED analysis_vars

\* run_pipeline.py:116
CreateIndices ==
    /\ pc = "create_inequality_indices"
    /\ UNCHANGED check_vars
    /\ UNCHANGED model_table
    /\ UNCHANGED sample_report
    /\ data_with_indices' = create_inequality_indices(data_recoded)
    /\ pc' = "add_geographic_names"
    /\ data_recoded' = CallerTable(data_recoded, create_inequality_indices(data_recoded))
    /\ UNCHANGED <<survey_raw, admin_raw, survey_with_geo, admin_by_level, merged_data,
                   data_with_names, data_final, analysis_sample, include_occupation,
                   error, warnings>>
    /\ UNCHANGED analysis_vars

\* run_pipeline.py:117
AddNames ==
    /\ pc = "add_geographic_names"
    /\ UNCHANGED check_vars
    /\ UNCHANGED model_table
    /\ UNCHANGED sample_report
    /\ data_with_names' = add_geographic_names_from_admin(data_with_indices, admin_raw)
    /\ pc' = "standardize_context_vars"
    /\ UNCHANGED <<survey_raw, admin_raw, survey_with_geo, admin_by_level, merged_data,
                   data_recoded, data_with_indices, data_final, analysis_sample,
                   include_occupation, error, warnings>>
    /\ UNCHANGED analysis_vars

\* run_pipeline.py:118
Standardize ==
    /\ pc = "standardize_context_vars"
    /\ UNCHANGED check_vars
    /\ UNCHANGED model_table
    /\ UNCHANGED sample_report
    /\ data_final' = standardize_context_vars(data_with_names)
    /\ pc' = "create_analysis_sample"
    /\ data_with_names' = CallerTable(data_with_names, standardize_context_vars(data_with_names))
    /\ UNCHANGED <<survey_raw, admin_raw, survey_with_geo, admin_by_level, merged_data,
                   data_recoded, data_with_indices, analysis_sample, include_occupation,
                   error, warnings>>
    /\ UNCHANGED analysis_vars


\* PHASE 4, run_pipeline.py:119
CreateSample ==
    /\ pc = "create_analysis_sample"
    /\ UNCHANGED check_vars
    /\ UNCHANGED model_table
    /\ sample_report' = SampleReport(data_final, include_occupation)
    /\ IF SampleError(data_final) # "none"
       THEN /\ error' = SampleError(data_final)
            /\ pc' = "aborted"
            /\ UNCHANGED analysis_sample
       ELSE /\ analysis_sample' = create_analysis_sample(data_final, include_occupation)
            /\ pc' = "fit_two_level_models"
            /\ UNCHANGED error
    /\ UNCHANGED <<survey_raw, admin_raw, survey_with_geo, admin_by_level, merged_data,
                   data_recoded, data_with_indices, data_with_names, data_final,
                   include_occupation, warnings>>
    /\ UNCHANGED analysis_vars


-----------------------------------------------------------------------------
(* analyze.py: smf.mixedlm(formula, data, groups).fit(reml=True) *)

\* A formula is [outcome, terms]: terms is the right-hand side split at " + ".
Formula(outcome, terms) == [outcome |-> outcome, terms |-> terms]

\* the columns a term of a formula reads
TermColumns(term) ==
    CASE term = "1" -> {}
      [] term = "C(sex)" -> {"sex"}
      [] term = "C(employment_status)" -> {"employment_status"}
      [] term = "C(occupation)" -> {"occupation"}
      [] term = "b_perc_low40_hh * wealth_index" -> {"b_perc_low40_hh", "wealth_index"}
      [] OTHER -> {term}

\* the fixed-effect terms of a formula: the intercept, the terms named, and
\* for a * b the two main effects and their product
FixedEffects(formula) ==
    {"Intercept"}
    \cup UNION {IF formula.terms[i] = "1" THEN {}
                ELSE IF formula.terms[i] = "b_perc_low40_hh * wealth_index"
                     THEN {"b_perc_low40_hh", "wealth_index", "b_perc_low40_hh:wealth_index"}
                     ELSE {formula.terms[i]} : i \in DOMAIN formula.terms}

\* the columns the model reads: outcome, predictors and the grouping column
FormulaColumns(formula, groups) ==
    {formula.outcome, groups} \cup UNION {TermColumns(formula.terms[i]) : i \in DOMAIN formula.terms}

\* the estimation cannot succeed: a column is not in the table (patsy raises),
\* or the table has no row
MustFail(formula, data, groups) ==
    \/ ~(FormulaColumns(formula, groups) \subseteq data.cols)
    \/ len(data) = 0

\* the message of the exception of a failed estimation
FitError == "mixedlm: the model could not be fitted"

\* (cov_re.iloc[0, 0], scale) of a fitted model: what the estimation returns
\* is not determined by the model, it is one of these pairs
VarianceComponents == {<<0, 4>>, <<1, 2>>, <<1, 11>>}

\* df[c].notna().sum()
NotnaCount(df, c) == Cardinality({i \in 1..len(df) : notna(df.rows[i][c])})

\* the result object of a successful estimation
FittedModel(formula, data, groups, vc) ==
    [formula |-> formula,
     groups |-> groups,
     nobs |-> Cardinality({i \in 1..len(data) :
                 \A c \in FormulaColumns(formula, groups) : notna(data.rows[i][c])}),
     params |-> FixedEffects(formula),
     cov_re |-> vc[1],
     scale |-> vc[2]]

\* one call of mixedlm(...).fit(), as recorded in fits
FitCall(caller, model, formula, data, groups, ok) ==
    [caller |-> caller, model |-> model, formula |-> formula, groups |-> groups,
     data |-> data, ok |-> ok]

-----------------------------------------------------------------------------
(* analyze.py: fit_two_level_models *)

\* analyze.py:133, 147, 293, 671: a column or a subsample is used when it
\* has more than this many values
MIN_OBSERVATIONS == 100

\* df["buurt_id"] = df["buurt_id"].astype(str)
GroupsAsText(data) == Assign(data, "buurt_id", LAMBDA r : AsTypeStr(r["buurt_id"]))

\* analyze.py:128-129
IndividualTerms == <<"age", "C(sex)", "education", "C(employment_status)", "born_in_nl">>

\* analyze.py:145-146
BuurtControlList ==
    <<"b_pop_dens", "b_pop_over_65", "b_pop_nonwest", "b_perc_low_inc_hh", "b_perc_soc_min_hh">>

\* the elements of the list that are columns with more than MIN_OBSERVATIONS values
WellObserved(df, list) ==
    SelectSeq(list, LAMBDA v : v \in df.cols /\ NotnaCount(df, v) > MIN_OBSERVATIONS)

\* the elements of the list that are columns
Available(df, list) == SelectSeq(list, LAMBDA v : v \in df.cols)

TwoLevelNames == <<"m0", "m1", "m2", "m3">>

\* the formulas of m0..m3 (analyze.py:110, 120, 127-134, 150-152)
TwoLevelFormulas(df) ==
    LET m1_terms == <<"b_perc_low40_hh">>
        m2_terms == m1_terms \o IndividualTerms
                    \o WellObserved(df, <<"occupation">>)
        m2_formula == [i \in DOMAIN m2_terms |->
                         IF m2_terms[i] = "occupation" THEN "C(occupation)" ELSE m2_terms[i]]
        m3_formula == m2_formula \o WellObserved(df, BuurtControlList)
    IN <<Formula("DV_single", <<"1">>), Formula("DV_single", m1_terms),
         Formula("DV_single", m2_formula), Formula("DV_single", m3_formula)>>

\* the model at which fit_two_level_models can raise (0: it returns): the
\* models before it were fitted, and nothing catches the exception
TwoLevelOutcomes(df) ==
    {k \in 0..4 :
        \A j \in 1..4 : (k = 0 \/ j < k) => ~MustFail(TwoLevelFormulas(df)[j], df, "buurt_id")}

\* the lines fit_two_level_models prints before each estimation
TwoLevelPrints ==
    <<"  Fitting m0 (empty model)...", "  Fitting m1 (+ key predictor)...",
      "  Fitting m2 (+ individual controls)...", "  Fitting m3 (+ buurt controls)...">>

\* the container fit_two_level_models returns (analyze.py:168-173)
TwoLevelModels(df, vc0, vc) ==
    [m0_empty |-> FittedModel(TwoLevelFormulas(df)[1], df, "buurt_id", vc0),
     m1_key_pred |-> FittedModel(TwoLevelFormulas(df)[2], df, "buurt_id", vc),
     m2_ind_controls |-> FittedModel(TwoLevelFormulas(df)[3], df, "buurt_id", vc),
     m3_buurt_controls |-> FittedModel(TwoLevelFormulas(df)[4], df, "buurt_id", vc)]

\* the calls of mixedlm fit_two_level_models makes when it raises at model k
\* (k = 0: when it returns)
TwoLevelCalls(df, k) ==
    [j \in 1..(IF k = 0 THEN 4 ELSE k) |->
        FitCall("fit_two_level_models", TwoLevelNames[j], TwoLevelFormulas(df)[j], df,
                "buurt_id", j # k)]

\* PHASE 5a, run_pipeline.py:128: an exception of fit_two_level_models is
\* caught nowhere and ends main()
FitTwoLevel ==
    /\ pc = "fit_two_level_models"
    /\ UNCHANGED check_vars
    /\ UNCHANGED model_table
    /\ UNCHANGED sample_report
    /\ \E df \in {GroupsAsText(analysis_sample)} :
       \E k \in TwoLevelOutcomes(df) : \E vc0, vc \in VarianceComponents :
          /\ fits' = fits \o TwoLevelCalls(df, k)
          /\ IF k = 0
             THEN /\ models' = TwoLevelModels(df, vc0, vc)
                  /\ output' = output \o TwoLevelPrints \o <<"  All models fitted successfully">>
                  /\ pc' = "calculate_icc"
                  /\ UNCHANGED error
             ELSE /\ output' = output \o SubSeq(TwoLevelPrints, 1, k)
                  /\ error' = FitError
                  /\ pc' = "aborted"
                  /\ UNCHANGED models
    /\ analysis_sample' = IF "buurt_id" \in analysis_sample.cols
                       THEN CallerTable(analysis_sample, GroupsAsText(analysis_sample))
                       ELSE analysis_sample
    /\ UNCHANGED <<survey_raw, admin_raw, survey_with_geo, admin_by_level, merged_data,
                   data_recoded, data_with_indices, data_with_names, data_final,
                   include_occupation, warnings>>
    /\ UNCHANGED <<icc_results, diagnostics, sensitivity, h3_results, four_level_models,
                   four_level_icc, report>>

-----------------------------------------------------------------------------
(* Python float arithmetic: every operation rounds its exact result to the *)
(* nearest float, ties to the even mantissa.  The mantissa of the model is *)
(* shorter than the 53 bits of a float64; the rounding rule is the same.    *)

MantissaBits == 8

RECURSIVE Pow2(_)
Pow2(k) == IF k = 0 THEN 1 ELSE 2 * Pow2(k - 1)

\* the float nearest to (num / den) * 2^e, for num / den > 0
RECURSIVE RoundScaled(_, _, _)
RoundScaled(num, den, e) ==
    IF num >= den * Pow2(MantissaBits) THEN RoundScaled(num, 2 * den, e + 1)
    ELSE IF num < den * Pow2(MantissaBits - 1) THEN RoundScaled(2 * num, den, e - 1)
    ELSE LET low == num \div den
             up == 2 * (num % den) > den \/ (2 * (num % den) = den /\ low % 2 = 1)
             m == IF up THEN low + 1 ELSE low
         IN IF e >= 0 THEN Float(m * Pow2(e), 1) ELSE Float(m, Pow2(-e))

\* the float nearest to the exact value x
FloatRound(x) ==
    IF ~IsNum(x) \/ x.n = 0 THEN x
    ELSE IF x.n > 0 THEN RoundScaled(x.n, x.d, 0)
    ELSE Sub(Float(0, 1), RoundScaled(-x.n, x.d, 0))

\* a + b, a * b and a / b of two Python floats
FloatAdd(a, b) == FloatRound(Add(a, b))
FloatMul(a, b) == FloatRound(Mul(a, b))
FloatDiv(a, b) == FloatRound(Div(a, b))

-----------------------------------------------------------------------------
(* analyze.py: calculate_icc, run_diagnostics *)

\* var_total of the empty model is 0.0: the divisions of analyze.py:418-420
\* raise ZeroDivisionError
IccError(ms) ==
    IF ms.m0_empty.cov_re + ms.m0_empty.scale = 0
    THEN "ZeroDivisionError: float division by zero" ELSE "none"

\* calculate_icc, with the variances of model m1 in place of those of m0
calculate_icc_of_m1(ms) ==
    LET var_buurt == Float(ms.m1_key_pred.cov_re, 1)
        var_residual == Float(ms.m1_key_pred.scale, 1)
        var_total == FloatAdd(var_buurt, var_residual)
    IN [icc |-> FloatDiv(var_buurt, var_total),
        var_buurt |-> var_buurt,
        var_residual |-> var_residual,
        var_total |-> var_total,
        pct_between |-> FloatDiv(FloatMul(Float(100, 1), var_buurt), var_total),
        pct_within |-> FloatDiv(FloatMul(Float(100, 1), var_residual), var_total)]

\* analyze.py:391-434; 100 * v / var_total is (100 * v) / var_total
calculate_icc(ms) ==
    LET var_buurt == Float(ms.m0_empty.cov_re, 1)
        var_residual == Float(ms.m0_empty.scale, 1)
        var_total == FloatAdd(var_buurt, var_residual)
    IN [icc |-> FloatDiv(var_buurt, var_total),
        var_buurt |-> var_buurt,
        var_residual |-> var_residual,
        var_total |-> var_total,
        pct_between |-> FloatDiv(FloatMul(Float(100, 1), var_buurt), var_total),
        pct_within |-> FloatDiv(FloatMul(Float(100, 1), var_residual), var_total)]

\* the lines calculate_icc prints
IccPrints ==
    <<"Calculating ICC and variance decomposition...", "  Variance (buurt)",
      "  Variance (residual)", "  ICC", "  Interpretation">>

\* PHASE 5a, run_pipeline.py:129
CalculateIcc ==
    /\ pc = "calculate_icc"
    /\ UNCHANGED check_vars
    /\ UNCHANGED model_table
    /\ UNCHANGED sample_report
    /\ IF IccError(models) # "none"
       THEN /\ error' = IccError(models)
            /\ output' = output \o SubSeq(IccPrints, 1, 1)
            /\ pc' = "aborted"
            /\ UNCHANGED icc_results
       ELSE /\ icc_results' = calculate_icc(models)
            /\ output' = output \o IccPrints
            /\ pc' = "run_diagnostics"
            /\ UNCHANGED error
    /\ UNCHANGED <<survey_raw, admin_raw, survey_with_geo, admin_by_level, merged_data,
                   data_recoded, data_with_indices, data_with_names, data_final,
                   analysis_sample, include_occupation, warnings>>
    /\ UNCHANGED <<models, diagnostics, sensitivity, h3_results, four_level_models,
                   four_level_icc, report, fits>>

\* analyze.py:441-557: the diagnostics read the last model; n_clusters is the
\* number of random effects, one per buurt_id of the table the model was fitted on
run_diagnostics(ms, data) ==
    [model |-> ms.m3_buurt_controls.formula,
     n_obs |-> ms.m3_buurt_controls.nobs,
     n_clusters |-> Cardinality({data.rows[i]["buurt_id"] : i \in 1..len(data)})]

\* PHASE 5a, run_pipeline.py:130
RunDiagnostics ==
    /\ pc = "run_diagnostics"
    /\ UNCHANGED check_vars
    /\ UNCHANGED model_table
    /\ UNCHANGED sample_report
    /\ diagnostics' = run_diagnostics(models, analysis_sample)
    /\ output' = output \o <<"Running model diagnostics...">>
    /\ pc' = "run_sensitivity"
    /\ UNCHANGED <<survey_raw, admin_raw, survey_with_geo, admin_by_level, merged_data,
                   data_recoded, data_with_indices, data_with_names, data_final,
                   analysis_sample, include_occupation, error, warnings>>
    /\ UNCHANGED <<models, icc_results, sensitivity, h3_results, four_level_models,
                   four_level_icc, report, fits>>

-----------------------------------------------------------------------------
(* analyze.py: run_sensitivity *)

RECURSIVE Flatten(_)
Flatten(ss) == IF ss = <<>> THEN <<>> ELSE Head(ss) \o Flatten(Tail(ss))

\* the label of each specification in the result table
SensitivityNames ==
    <<"Base (DV_single)", "2-item composite", "3-item composite", "Dutch-born only",
      "Income ratio (high/low)", "With wealth interaction">>

\* the column whose presence makes run_sensitivity run specification i (the
\* base model always runs; b_perc_low40_hh is read by specification 6 as well)
SensitivityNeeds ==
    <<{}, {"DV_2item_scaled"}, {"DV_3item_scaled"}, {"born_in_nl"}, {"b_income_ratio"},
      {"wealth_index", "b_perc_low40_hh"}>>

\* the formula of specification i: outcome ~ key predictor + controls
SensitivityFormula(data, i) ==
    Formula(CASE i = 2 -> "DV_2item_scaled" [] i = 3 -> "DV_3item_scaled" [] OTHER -> "DV_single",
            (CASE i = 5 -> <<"b_income_ratio">>
               [] i = 6 -> <<"b_perc_low40_hh * wealth_index">>
               [] OTHER -> <<"b_perc_low40_hh">>)
            \o SubSeq(IndividualTerms, 1, IF i = 4 THEN 4 ELSE 5)
            \o Available(data, BuurtControlList))

\* data["born_in_nl"] == max_val if max_val > 1 else data["born_in_nl"] == 1
DutchBorn(data) ==
    LET born == Present(Column(data, "born_in_nl"))
        over == {i \in DOMAIN born : born[i].n > born[i].d}
        max_val == IF over = {} THEN Float(1, 1)
                   ELSE born[CHOOSE i \in over :
                               \A j \in over : born[i].n * born[j].d >= born[j].n * born[i].d]
    IN [cols |-> data.cols,
        rows |-> SelectRows(data.rows, LAMBDA r : AsFloat(r["born_in_nl"]) = max_val)]

\* the rows specification i selects from (the Dutch-born for specification 4)
SensitivitySource(data, i) == IF i = 4 THEN DutchBorn(data) ELSE data

\* prepare_data(df, required_vars), when df has the columns
prepare_data(df, required_vars) ==
    GroupsAsText(DropNa(Project(df, required_vars), required_vars))

\* the table specification i is fitted on
SensitivityTable(data, i) ==
    prepare_data(SensitivitySource(data, i),
                 FormulaColumns(SensitivityFormula(data, i), "buurt_id"))

\* what can become of specification i:
\*   "skipped"  its column is not in the data, it is not run
\*   "keyerror" df[required_vars] raises, the except clause prints the error
\*   "small"    the Dutch-born table has at most MIN_OBSERVATIONS rows: no model
\*              is fitted and nothing is printed (analyze.py:671)
\*   "error"    the estimation raises, the except clause prints the error
\*   "fitted"   the estimation succeeds and its row is appended to results
SensitivityOutcomes(data, i) ==
    IF ~(SensitivityNeeds[i] \subseteq data.cols) THEN {"skipped"}
    ELSE IF ~(FormulaColumns(SensitivityFormula(data, i), "buurt_id") \subseteq data.cols)
         THEN {"keyerror"}
    ELSE IF i = 4 /\ len(SensitivityTable(data, i)) <= MIN_OBSERVATIONS THEN {"small"}
    ELSE IF MustFail(SensitivityFormula(data, i), SensitivityTable(data, i), "buurt_id")
         THEN {"error"}
    ELSE {"error", "fitted"}

\* the calls of mixedlm run_sensitivity makes when the specifications end as o
SensitivityCalls(data, o) ==
    Flatten([i \in 1..6 |->
        IF o[i] \in {"error", "fitted"}
        THEN <<FitCall("run_sensitivity", SensitivityNames[i], SensitivityFormula(data, i),
                       SensitivityTable(data, i), "buurt_id", o[i] = "fitted")>>
        ELSE <<>>])

\* the line run_sensitivity prints before it tries specification i
SensitivityStarts ==
    <<"  1. Base model (DV_single)...", "  2. Two-item composite...",
      "  3. Three-item composite...", "  4. Dutch-born only...",
      "  5. Income ratio model (robustness)...", "  6. Wealth interaction (H3 test)...">>

\* the lines run_sensitivity prints: an except clause prints "    Error: {e}"
\* right after the line of its specification
SensitivityPrints(o) ==
    <<"Running sensitivity analyses...">>
    \o Flatten([i \in 1..6 |->
          IF o[i] = "skipped" THEN <<>>
          ELSE IF o[i] \in {"keyerror", "error"} THEN <<SensitivityStarts[i], "    Error: ">>
               ELSE <<SensitivityStarts[i]>>])
    \o <<"  Sensitivity Summary:">>

\* results_df when the first failing specification ends the function: the
\* rows of the specifications fitted before it
run_sensitivity_until_failure(data, o) ==
    Flatten([i \in 1..6 |->
        IF o[i] # "fitted" \/ \E j \in 1..i : o[j] \in {"keyerror", "error"} THEN <<>>
        ELSE <<[specification |-> SensitivityNames[i],
                N |-> len(SensitivityTable(data, i))]>>])

\* results_df: one row for each fitted specification, and the row of the
\* interaction term after that of specification 6
run_sensitivity(data, o) ==
    Flatten([i \in 1..6 |->
        IF o[i] # "fitted" THEN <<>>
        ELSE <<[specification |-> SensitivityNames[i],
                N |-> len(SensitivityTable(data, i))]>>
             \o (IF i = 6 THEN <<[specification |-> "  -> Interaction term",
                                  N |-> len(SensitivityTable(data, i))]>>
                 ELSE <<>>)])

\* PHASE 5a, run_pipeline.py:131: every specification is inside its own
\* try / except Exception, so run_sensitivity returns whatever happens to them
RunSensitivity ==
    /\ pc = "run_sensitivity"
    /\ UNCHANGED check_vars
    /\ UNCHANGED model_table
    /\ UNCHANGED sample_report
    /\ \E o1 \in SensitivityOutcomes(data_final, 1), o2 \in SensitivityOutcomes(data_final, 2),
          o3 \in SensitivityOutcomes(data_final, 3), o4 \in SensitivityOutcomes(data_final, 4),
          o5 \in SensitivityOutcomes(data_final, 5), o6 \in SensitivityOutcomes(data_final, 6) :
          /\ sensitivity' = run_sensitivity(data_final, <<o1, o2, o3, o4, o5, o6>>)
          /\ fits' = fits \o SensitivityCalls(data_final, <<o1, o2, o3, o4, o5, o6>>)
          /\ output' = output \o SensitivityPrints(<<o1, o2, o3, o4, o5, o6>>)
    /\ pc' = "test_h3"
    /\ UNCHANGED <<survey_raw, admin_raw, survey_with_geo, admin_by_level, merged_data,
                   data_recoded, data_with_indices, data_with_names, data_final,
                   analysis_sample, include_occupation, error, warnings>>
    /\ UNCHANGED <<models, icc_results, diagnostics, h3_results, four_level_models,
                   four_level_icc, report>>

-----------------------------------------------------------------------------
(* analyze.py: test_h3_cross_level_interaction *)

\* the formulas of Model 1 and Model 2 (analyze.py:833, 859)
H3Formulas(data) ==
    <<Formula("DV_single", <<"b_perc_low40_hh", "wealth_index">> \o IndividualTerms
                           \o Available(data, BuurtControlList)),
      Formula("DV_single", <<"b_perc_low40_hh * wealth_index">> \o IndividualTerms
                           \o Available(data, BuurtControlList))>>

\* df = data[all_vars].dropna(), buurt_id as text (analyze.py:813-815)
H3Table(data) == prepare_data(data, FormulaColumns(H3Formulas(data)[1], "buurt_id"))

\* how the test can end: -1 a required variable is missing, 1 or 2 the
\* estimation of that model raises, 0 both models are fitted
H3Outcomes(data) ==
    IF ~(FormulaColumns(H3Formulas(data)[1], "buurt_id") \subseteq data.cols) THEN {-1}
    ELSE IF MustFail(H3Formulas(data)[1], H3Table(data), "buurt_id") THEN {1}
    ELSE {0, 1, 2}

\* the dictionary the test returns when it ends as k
test_h3_cross_level_interaction(data, k) ==
    CASE k = -1 -> [error |-> "Missing variables"]
      [] k = 1 -> [error |-> FitError]
      [] k = 2 -> [m1_neighborhood |-> "b_perc_low40_hh", m1_wealth |-> "wealth_index",
                   error |-> FitError]
      [] OTHER -> [m1_neighborhood |-> "b_perc_low40_hh", m1_wealth |-> "wealth_index",
                   main_effect |-> "b_perc_low40_hh",
                   interaction_effect |-> "b_perc_low40_hh:wealth_index",
                   n_obs |-> len(H3Table(data))]

\* the calls of mixedlm the test makes when it ends as k
H3Calls(data, k) ==
    IF k = -1 THEN <<>>
    ELSE [j \in 1..(IF k = 1 THEN 1 ELSE 2) |->
            FitCall("test_h3_cross_level_interaction", <<"Model 1", "Model 2">>[j],
                    H3Formulas(data)[j], H3Table(data), "buurt_id", j # k)]

\* the lines the test prints when it ends as k
H3Prints(k) ==
    <<"H3 TEST: Cross-Level Interaction (Individual Income Moderation)">>
    \o (CASE k = -1 -> <<"  ERROR: Missing required variables">>
          [] k = 1 -> <<"  Model 1: Main effects only...", "    Error: ">>
          [] k = 2 -> <<"  Model 1: Main effects only...",
                        "  Model 2: With cross-level interaction (H3 test)...", "    Error: ">>
          [] OTHER -> <<"  Model 1: Main effects only...",
                        "  Model 2: With cross-level interaction (H3 test)...",
                        "  INTERPRETATION:">>)

\* PHASE 5a, run_pipeline.py:134
TestH3 ==
    /\ pc = "test_h3"
    /\ UNCHANGED check_vars
    /\ UNCHANGED model_table
    /\ UNCHANGED sample_report
    /\ \E k \in H3Outcomes(data_final) :
          /\ h3_results' = test_h3_cross_level_interaction(data_final, k)
          /\ fits' = fits \o H3Calls(data_final, k)
          /\ output' = output \o H3Prints(k)
    /\ pc' = "fit_four_level_models"
    /\ UNCHANGED <<survey_raw, admin_raw, survey_with_geo, admin_by_level, merged_data,
                   data_recoded, data_with_indices, data_with_names, data_final,
                   analysis_sample, include_occupation, error, warnings>>
    /\ UNCHANGED <<models, icc_results, diagnostics, sensitivity, four_level_models,
                   four_level_icc, report>>

-----------------------------------------------------------------------------
(* analyze.py: fit_four_level_models, calculate_four_level_icc *)

\* analyze.py:242-243
WijkControlList ==
    <<"w_pop_dens", "w_pop_over_65", "w_pop_nonwest", "w_perc_low_inc_hh", "w_perc_soc_min_hh">>

FourLevelNames == <<"m0", "m1", "m2", "m3", "m4">>

\* the formulas of m0..m4 (analyze.py:265, 273, 282-293, 304-306, 316-318);
\* occupation is never a column of df_model, so line 293 adds nothing
FourLevelFormulas(df) ==
    LET key_preds == <<"b_perc_low40_hh">>
                     \o Available(df, <<"w_perc_low40_hh", "g_perc_low40_hh">>)
        cat_vars == Available(df, <<"sex", "employment_status">>)
        m2_formula == key_preds \o Available(df, <<"age", "education", "born_in_nl">>)
                      \o [i \in DOMAIN cat_vars |->
                            IF cat_vars[i] = "sex" THEN "C(sex)" ELSE "C(employment_status)"]
        m3_formula == m2_formula \o Available(df, BuurtControlList)
    IN <<Formula("DV_single", <<"1">>), Formula("DV_single", key_preds),
         Formula("DV_single", m2_formula), Formula("DV_single", m3_formula),
         Formula("DV_single", m3_formula \o Available(df, WijkControlList))>>

\* all_vars of analyze.py:247-248
FourLevelVars(df) == FormulaColumns(FourLevelFormulas(df)[5], "buurt_id") \cup {"wijk_id", "gemeente_id"}

\* the three ids as text (analyze.py:224-225)
IdsAsText(data) ==
    [cols |-> data.cols,
     rows |-> [i \in 1..len(data) |->
                 [c \in data.cols |->
                     IF c \in {"buurt_id", "wijk_id", "gemeente_id"}
                     THEN AsTypeStr(data.rows[i][c]) ELSE data.rows[i][c]]]]

\* df_model: the ids are made text first, so dropna keeps the rows whose id
\* was missing (analyze.py:221-251)
FourLevelTable(data) ==
    DropNa(Project(IdsAsText(data), FourLevelVars(data)), FourLevelVars(data))

\* how PHASE 5b can end:
\*   0     the five models are fitted
\*   1..5  the estimation of that model raises
\*   6     fit_four_level_models raises before the first estimation: ValueError
\*         (no buurt_id, analyze.py:215-218) or KeyError (df[all_vars])
\*   7     wijk_id or gemeente_id is not a column: the phase is skipped
FourLevelOutcomes(data) ==
    IF ~({"wijk_id", "gemeente_id"} \subseteq data.cols) THEN {7}
    ELSE IF ~(FourLevelVars(data) \subseteq data.cols) THEN {6}
    ELSE {k \in 0..5 :
            \A j \in 1..5 : (k = 0 \/ j < k) =>
                ~MustFail(FourLevelFormulas(data)[j], FourLevelTable(data), "buurt_id")}

\* the calls of mixedlm the phase makes when it ends as k
FourLevelCalls(data, k) ==
    IF k \in {6, 7} THEN <<>>
    ELSE [j \in 1..(IF k = 0 THEN 5 ELSE k) |->
            FitCall("fit_four_level_models", FourLevelNames[j], FourLevelFormulas(data)[j],
                    FourLevelTable(data), "buurt_id", j # k)]

\* the container fit_four_level_models returns (analyze.py:336-342)
FourLevelModels(data, vc0, vc) ==
    [m0_empty |-> FittedModel(FourLevelFormulas(data)[1], FourLevelTable(data), "buurt_id", vc0),
     m1_key_pred |-> FittedModel(FourLevelFormulas(data)[2], FourLevelTable(data), "buurt_id", vc),
     m2_ind_controls |-> FittedModel(FourLevelFormulas(data)[3], FourLevelTable(data), "buurt_id", vc),
     m3_buurt_controls |-> FittedModel(FourLevelFormulas(data)[4], FourLevelTable(data), "buurt_id", vc),
     m4_wijk_controls |-> FittedModel(FourLevelFormulas(data)[5], FourLevelTable(data), "buurt_id", vc)]

\* analyze.py:345-384
calculate_four_level_icc(ms) ==
    LET var_buurt == Float(ms.m0_empty.cov_re, 1)
        var_residual == Float(ms.m0_empty.scale, 1)
        var_total == FloatAdd(var_buurt, var_residual)
        icc_buurt == IF var_total.n > 0 THEN FloatDiv(var_buurt, var_total) ELSE Float(0, 1)
    IN [var_buurt |-> var_buurt,
        var_residual |-> var_residual,
        var_total |-> var_total,
        icc_buurt |-> icc_buurt,
        pct_buurt |-> FloatMul(Float(100, 1), icc_buurt),
        pct_residual |-> IF var_total.n > 0
                         THEN FloatDiv(FloatMul(Float(100, 1), var_residual), var_total)
                         ELSE Float(0, 1)]

\* the lines the phase prints when it ends as k
FourLevelPrints(k) ==
    LET fitting == <<"  Fitting m0 (empty model)...",
                     "  Fitting m1 (+ key predictors at buurt/wijk/gemeente levels)...",
                     "  Fitting m2 (+ individual controls)...",
                     "  Fitting m3 (+ buurt-level controls)...",
                     "  Fitting m4 (+ wijk-level controls)...">>
    IN <<"PHASE 5b: ANALYZE (Four-Level Models: buurt/wijk/gemeente)">>
       \o (CASE k = 7 -> <<"  Skipping: wijk_id or gemeente_id not available">>
             [] k = 6 -> <<"Fitting four-level multilevel models...",
                           "  Warning: Four-level models failed: ">>
             [] k \in 1..5 -> <<"Fitting four-level multilevel models...">>
                              \o SubSeq(fitting, 1, k)
                              \o <<"  Warning: Four-level models failed: ">>
             [] OTHER -> <<"Fitting four-level multilevel models...">> \o fitting
                         \o <<"  All four-level models fitted successfully",
                              "Calculating variance decomposition...">>)

\* PHASE 5b, run_pipeline.py:138-153: the models exist only when
\* fit_four_level_models returns; an exception leaves both variables None
FitFourLevel ==
    /\ pc = "fit_four_level_models"
    /\ UNCHANGED check_vars
    /\ UNCHANGED model_table
    /\ UNCHANGED sample_report
    /\ \E k \in FourLevelOutcomes(data_final) : \E vc0, vc \in VarianceComponents :
          /\ fits' = fits \o FourLevelCalls(data_final, k)
          /\ output' = output \o FourLevelPrints(k)
          /\ IF k = 0
             THEN /\ four_level_models' = FourLevelModels(data_final, vc0, vc)
                  /\ four_level_icc' =
                         calculate_four_level_icc(FourLevelModels(data_final, vc0, vc))
             ELSE /\ four_level_models' = None
                  /\ four_level_icc' = None
    /\ pc' = "report"
    /\ data_final' = IF {"buurt_id", "wijk_id", "gemeente_id"} \subseteq data_final.cols
                   THEN CallerTable(data_final, IdsAsText(data_final))
                   ELSE data_final
    /\ UNCHANGED <<survey_raw, admin_raw, survey_with_geo, admin_by_level, merged_data,
                   data_recoded, data_with_indices, data_with_names, analysis_sample,
                   include_occupation, error, warnings>>
    /\ UNCHANGED <<models, icc_results, diagnostics, sensitivity, h3_results, report>>

-----------------------------------------------------------------------------
(* run_pipeline.py: main(), phase 6 *)

\* report.py:435-520: the report is made of the results of phase 5a; the
\* four-level table is written when four_level_models is not None
generate_report(ms, icc, diag, sens, four) ==
    [n_obs |-> diag.n_obs,
     n_clusters |-> diag.n_clusters,
     icc |-> icc.icc,
     models |-> ms,
     sensitivity |-> sens,
     four_level_table |-> four # None]

\* PHASE 6, run_pipeline.py:155-187
Report ==
    /\ pc = "report"
    /\ UNCHANGED check_vars
    /\ UNCHANGED model_table
    /\ UNCHANGED sample_report
    /\ report' = generate_report(models, icc_results, diagnostics, sensitivity,
                                 four_level_models)
    /\ output' = output \o <<"PHASE 6: REPORT", "PIPELINE COMPLETE">>
    /\ pc' = "done"
    /\ UNCHANGED <<survey_raw, admin_raw, survey_with_geo, admin_by_level, merged_data,
                   data_recoded, data_with_indices, data_with_names, data_final,
                   analysis_sample, include_occupation, error, warnings>>
    /\ UNCHANGED <<models, icc_results, diagnostics, sensitivity, h3_results,
                   four_level_models, four_level_icc, fits>>

-----------------------------------------------------------------------------
(* report.py: _get_stars, create_model_table *)

\* the marker of one |z| threshold crossed at its value instead of above it
_get_stars_inclusive(coef, se) ==
    IF isna(se) \/ se.n = 0 THEN ""
    ELSE LET z == AbsCell(Div(coef, se))
         IN IF isna(z) THEN ""
            ELSE IF 100 * z.n >= 329 * z.d THEN "***"
            ELSE IF 100 * z.n >= 258 * z.d THEN "**"
            ELSE IF 100 * z.n >= 196 * z.d THEN "*"
            ELSE ""

\* _get_stars: no division when se is 0 or nan; a nan z is above no threshold
_get_stars(coef, se) ==
    IF isna(se) \/ se.n = 0 THEN ""
    ELSE LET z == AbsCell(Div(coef, se))
         IN IF isna(z) THEN ""
            ELSE IF 100 * z.n > 329 * z.d THEN "***"
            ELSE IF 100 * z.n > 258 * z.d THEN "**"
            ELSE IF 100 * z.n > 196 * z.d THEN "*"
            ELSE ""

\* the attributes of the container create_model_table reads, in column order
TableModels == <<"m0_empty", "m1_key_pred", "m2_ind_controls", "m3_buurt_controls">>

\* the parameters that get a row of their own (report.py:60-66, 87-88)
TableParams(ms) ==
    UNION {DOMAIN ms[TableModels[k]].params : k \in 1..4} \ {"Intercept", "Group Var"}

\* the rows of the table as a function of the parameter, each row a function
\* of the model: the cell of a parameter the model does not have is empty,
\* the cell of the intercept has no marker.  The order of the rows and the
\* statistics below them are left out.
create_model_table(ms) ==
    [param \in {"Intercept"} \cup TableParams(ms) |->
        [k \in 1..4 |->
            LET model == ms[TableModels[k]]
            IN IF param \notin DOMAIN model.params THEN [empty |-> TRUE]
               ELSE IF param = "Intercept"
                    THEN [coef |-> model.params[param], se |-> model.bse[param], stars |-> ""]
                    ELSE [coef |-> model.params[param], se |-> model.bse[param],
                          stars |-> _get_stars(model.params[param], model.bse[param])]]]

\* run_pipeline.py:168
CreateModelTable ==
    /\ pc = "create_model_table"
    /\ model_table' = create_model_table(models)
    /\ pc' = "generate_report"
    /\ UNCHANGED <<survey_raw, admin_raw, survey_with_geo, admin_by_level, merged_data,
                   data_recoded, data_with_indices, data_with_names, data_final,
                   analysis_sample, include_occupation, error, warnings>>
    /\ UNCHANGED <<check_vars, sample_report, analysis_vars>>

-----------------------------------------------------------------------------
(* Inputs *)

NoLevels == [buurt |-> EmptyFrame, wijk |-> EmptyFrame, gemeente |-> EmptyFrame]

\* nothing of phases 5 and 6 has run
NoAnalysisYet ==
    /\ models = None
    /\ icc_results = None
    /\ diagnostics = None
    /\ sensitivity = None
    /\ h3_results = None
    /\ four_level_models = None
    /\ four_level_icc = None
    /\ report = None
    /\ fits = <<>>
    /\ output = <<>>

\* none of the checks of phases 1 and 3 has run, nothing is reported about
\* the sample and no regression table is made
NoChecksYet ==
    /\ sample_report = <<>>
    /\ model_table = None
    /\ validation = None
    /\ merge_validation = None
    /\ matched_comparison = None

\* everything main() has not assigned yet
NothingYet ==
    /\ survey_with_geo = EmptyFrame
    /\ admin_by_level = NoLevels
    /\ merged_data = EmptyFrame
    /\ data_recoded = EmptyFrame
    /\ data_with_indices = EmptyFrame
    /\ data_with_names = EmptyFrame
    /\ data_final = EmptyFrame
    /\ analysis_sample = EmptyFrame
    /\ error = "none"
    /\ warnings = {}
    /\ NoChecksYet
    /\ NoAnalysisYet

\* the tables with the given columns whose rows are drawn from RowSet
Frames(columns, RowSet, lo, hi) ==
    {[cols |-> columns, rows |-> rs] : rs \in SeqsUpTo(RowSet, lo, hi)}

\* the code held by an accepted column that is not the first one
OtherCode == Str(BU \o <<"7">>)

(* Inputs of main(): a survey as load_survey_data returns it (respondent_id *)
(* numbers the rows) and an administrative table of one of five layouts.    *)
MaxResp == 2

Respondents ==
    {[Buurtcode |-> Str(<<"1">>), red_inc_diff |-> Float(4, 1), sex |-> Float(1, 1),
      birth_year |-> Float(1980, 1), educyrs |-> Float(12, 1)],
     [Buurtcode |-> Str(<<"1">>), red_inc_diff |-> Float(8, 1), sex |-> Float(2, 1),
      birth_year |-> Float(1950, 1), educyrs |-> Float(16, 1)],
     [Buurtcode |-> NaN, red_inc_diff |-> Float(7, 1), sex |-> Float(4, 1),
      birth_year |-> Float(1950, 1), educyrs |-> Float(10, 1)],
     [Buurtcode |-> Str(<<"2">>), red_inc_diff |-> Float(1, 1), sex |-> NaN,
      birth_year |-> NaN, educyrs |-> NaN]}

SurveyColumns ==
    {"respondent_id", "Buurtcode", "red_inc_diff", "sex", "birth_year", "educyrs"}

Surveys ==
    {[cols |-> SurveyColumns,
      rows |-> [i \in 1..Len(rs) |->
                  [c \in SurveyColumns |->
                      IF c = "respondent_id" THEN Int64(i) ELSE rs[i][c]]]] :
        rs \in SeqsUpTo(Respondents, 1, MaxResp)}

AdminLayouts ==
    {{"region_code", "WijkenEnBuurten", "gemeente_name", "AantalInwoners_5",
      "k_40HuishoudensMetLaagsteInkomen_73", "k_20HuishoudensMetHoogsteInkomen_74"},
     {"Codering_3", "WijkenEnBuurten", "AantalInwoners_5"},
     {"WijkenEnBuurten", "AantalInwoners_5"},
     {"region_code", "Codering_3", "AantalInwoners_5"},
     {"gemeente_name", "AantalInwoners_5"}}

AdminCodeLists ==
    {<<Str(BU \o ZFill(<<"1">>, 8)), Str(WK \o ZFill(<<>>, 6)), Str(GM \o ZFill(<<>>, 4))>>,
     <<Str(BU \o ZFill(<<"1">>, 8)), Str(BU \o ZFill(<<"1">>, 8))>>,
     <<Str(WK \o ZFill(<<>>, 6))>>,
     <<Str(<<"X", "X", "1">>)>>,
     <<Str(BU \o <<"1">>), Str(BU \o ZFill(<<"2">>, 8))>>}

\* the table of a layout whose rows carry the given codes: the code is in the
\* first accepted column of the layout, a later code column holds OtherCode,
\* WijkenEnBuurten holds a name when it is not the code column
AdminTable(columns, codes) ==
    LET first == FindRegionCol([cols |-> columns, rows |-> <<>>])
        cell(c, i) ==
            CASE c = first -> codes[i]
              [] c = "Codering_3" -> OtherCode
              [] c = "WijkenEnBuurten" -> Str(<<" ", "A">>)
              [] c = "gemeente_name" -> Str(<<"G">>)
              [] c = "AantalInwoners_5" -> Int64(100 * i)
              [] c = "k_40HuishoudensMetLaagsteInkomen_73" ->
                    Float(<<1999, 999, 0>>[i], 100)
              [] c = "k_20HuishoudensMetHoogsteInkomen_74" -> Float(30, 1)
    IN [cols |-> columns, rows |-> [i \in 1..Len(codes) |-> [c \in columns |-> cell(c, i)]]]

PipelineAdminTables ==
    {AdminTable(columns, codes) : columns \in AdminLayouts, codes \in AdminCodeLists}

Init ==
    /\ pc = "validate_raw_data"
    /\ survey_raw \in Surveys
    /\ admin_raw \in PipelineAdminTables
    /\ include_occupation \in BOOLEAN
    /\ NothingYet

Next ==
    \/ Validate
    \/ CreateGeoIds
    \/ PrepareAdmin
    \/ Merge
    \/ ValidateMerge
    \/ CompareMatched
    \/ Recode
    \/ CreateIndices
    \/ AddNames
    \/ Standardize
    \/ CreateSample

\* main() of run_pipeline.py from the validation of phase 1 to the analysis sample
Spec == Init /\ [][Next]_vars


(* Inputs of create_geo_ids: a Buurtcode column of strings, of int64 or of  *)
(* float64 (a Stata numeric variable), the latter two without a sign.       *)
MaxTail == 3
MaxGeoRows == 2

CodeBase == <<"3", "6", "3", "0", "1", "0", "0">>
CodeTails == SeqsUpTo({"0", "."}, 0, MaxTail)
CodeStrings == CodeTails \cup {CodeBase \o x : x \in CodeTails}
CodeNumbers == {7, 3630100, 363010012}

GeoRowsStr == {[Buurtcode |-> c] : c \in {Str(x) : x \in CodeStrings} \cup {NaN}}
GeoRowsInt == {[Buurtcode |-> Int64(v)] : v \in CodeNumbers}
GeoRowsFloat ==
    {[Buurtcode |-> c] : c \in {Float(v, 1) : v \in CodeNumbers} \cup {Float(25, 2), NaN}}

\* a survey of 1..MaxGeoRows rows whose Buurtcode column has one dtype
IsGeoSurvey(t) ==
    \E RowSet \in {GeoRowsStr, GeoRowsInt, GeoRowsFloat} :
        \E k \in 1..MaxGeoRows : \E rs \in [1..k -> RowSet] :
            t = [cols |-> {"Buurtcode"}, rows |-> rs]

InitGeo ==
    /\ pc = "create_geo_ids"
    /\ IsGeoSurvey(survey_raw)
    /\ admin_raw = EmptyFrame
    /\ include_occupation = TRUE
    /\ NothingYet

\* create_geo_ids on every survey of IsGeoSurvey
SpecGeo == InitGeo /\ [][CreateGeoIds]_vars

(* Inputs of prepare_admin_by_level: the first accepted column the table    *)
(* has holds a code of AdminCodes, the other accepted columns it has hold   *)
(* OtherCode, and AantalInwoners_5 holds the number of the row.             *)
MaxAdminRows == 2

AdminCodes ==
    {Str(BU \o <<"1">>), Str(BU \o <<"0", "1">>), Str(<<" ">> \o BU \o <<" ", "1", " ">>),
     Str(WK \o <<"0">>), Str(WK \o <<"0", "0">>),
     Str(GM \o <<"0">>), Str(GM \o <<"1", "2", "3", "4", "5">>),
     Str(<<"X", "X", "1">>), NaN}

RegionColSets == SUBSET {"region_code", "Codering_3", "WijkenEnBuurten"}

\* the table with the given accepted columns whose rows carry the codes
AdminFrame(columns, codes) ==
    LET first == FindRegionCol([cols |-> columns, rows |-> <<>>])
        row(i, code) ==
            [c \in columns \cup {"AantalInwoners_5"} |->
                IF c = "AantalInwoners_5" THEN Int64(i)
                ELSE IF c = first THEN code ELSE OtherCode]
    IN [cols |-> columns \cup {"AantalInwoners_5"},
        rows |-> [i \in 1..Len(codes) |-> row(i, codes[i])]]

\* an administrative table of 1..MaxAdminRows rows
IsAdminTable(t) ==
    \E columns \in RegionColSets :
        \E k \in 1..MaxAdminRows : \E codes \in [1..k -> AdminCodes] :
            t = AdminFrame(columns, codes)

\* respondents of the buurten 00000001 and 00000002, and one without a code
SplitSurveys ==
    {create_geo_ids(sv) :
        sv \in Frames({"Buurtcode"},
                      {[Buurtcode |-> Str(<<"1">>)], [Buurtcode |-> Str(<<"2">>)],
                       [Buurtcode |-> NaN]}, 2, 2)}

InitSplit ==
    /\ pc = "prepare_admin"
    /\ survey_raw = EmptyFrame
    /\ IsAdminTable(admin_raw)
    /\ include_occupation = TRUE
    /\ analysis_sample = EmptyFrame
    /\ data_recoded = EmptyFrame
    /\ data_with_indices = EmptyFrame
    /\ data_with_names = EmptyFrame
    /\ data_final = EmptyFrame
    /\ merged_data = EmptyFrame
    /\ admin_by_level = NoLevels
    /\ survey_with_geo \in SplitSurveys
    /\ error = "none"
    /\ warnings = {}
    /\ NoChecksYet
    /\ NoAnalysisYet

\* prepare_admin_by_level on every table of IsAdminTable, and the merge of a
\* survey with the level tables it returned
SpecSplit == InitSplit /\ [][PrepareAdmin \/ Merge]_vars

(* Inputs of merge_survey_admin called with level tables of any content     *)
MaxLevelRows == 2

LevelRows(id_col, ind_col, ids) ==
    {[c \in {id_col, ind_col} |-> IF c = id_col THEN Str(x) ELSE Int64(v)] :
        x \in ids, v \in {1}}

LevelFrames(id_col, ind_col, ids) ==
    {EmptyFrame} \cup Frames({id_col, ind_col}, LevelRows(id_col, ind_col, ids), 1, MaxLevelRows)

AnyLevels ==
    [buurt : LevelFrames("buurt_id", "b_pop_total",
                         {ZFill(<<"1">>, 8), ZFill(<<"2">>, 8)}),
     wijk : LevelFrames("wijk_id", "w_pop_total", {ZFill(<<>>, 6), <<"0", "3", "6", "3", "0", "1">>}),
     gemeente : LevelFrames("gemeente_id", "g_pop_total", {ZFill(<<>>, 4)})]

InitMerge ==
    /\ pc = "merge"
    /\ survey_raw = EmptyFrame
    /\ admin_raw = EmptyFrame
    /\ include_occupation = TRUE
    /\ survey_with_geo \in SplitSurveys
    /\ admin_by_level \in AnyLevels
    /\ merged_data = EmptyFrame
    /\ data_recoded = EmptyFrame
    /\ data_with_indices = EmptyFrame
    /\ data_with_names = EmptyFrame
    /\ data_final = EmptyFrame
    /\ analysis_sample = EmptyFrame
    /\ error = "none"
    /\ warnings = {}
    /\ NoChecksYet
    /\ NoAnalysisYet

\* merge_survey_admin on level tables of any content
SpecMerge == InitMerge /\ [][Merge]_vars


(* Inputs of create_analysis_sample: tables of three layouts, one of them   *)
(* without buurt_id; respondent_id holds the number of the row.             *)
MaxSampleRows == 3

SampleLayouts ==
    {{"buurt_id", "DV_single", "occupation"},
     {"buurt_id", "b_perc_low40_hh", "weight"},
     {"DV_single", "weight"}}

SampleCell(c) ==
    IF c = "buurt_id" THEN {Str(ZFill(<<"1">>, 8)), Str(ZFill(<<"2">>, 8)), NaN}
    ELSE IF c = "occupation" THEN {Str(<<"Clerical">>), NaN}
    ELSE {Float(50, 1), NaN}

\* the rows a table with the given columns can have
SampleRows(columns) ==
    {f \in [columns -> UNION {SampleCell(c) : c \in columns}] :
        \A c \in columns : f[c] \in SampleCell(c)}

\* the table with the given columns and rows, the rows numbered
SampleFrame(columns, rs) ==
    [cols |-> columns \cup {"respondent_id"},
     rows |-> [i \in 1..Len(rs) |->
                 [c \in columns \cup {"respondent_id"} |->
                     IF c = "respondent_id" THEN Int64(i) ELSE rs[i][c]]]]

\* an input table of 0..MaxSampleRows rows
IsSampleTable(t) ==
    \E columns \in SampleLayouts :
        \E k \in 0..MaxSampleRows : \E rs \in [1..k -> SampleRows(columns)] :
            t = SampleFrame(columns, rs)

InitSample ==
    /\ pc = "create_analysis_sample"
    /\ survey_raw = EmptyFrame
    /\ admin_raw = EmptyFrame
    /\ include_occupation \in BOOLEAN
    /\ survey_with_geo = EmptyFrame
    /\ admin_by_level = NoLevels
    /\ merged_data = EmptyFrame
    /\ data_recoded = EmptyFrame
    /\ data_with_indices = EmptyFrame
    /\ data_with_names = EmptyFrame
    /\ IsSampleTable(data_final)
    /\ analysis_sample = EmptyFrame
    /\ error = "none"
    /\ warnings = {}
    /\ NoChecksYet
    /\ NoAnalysisYet

\* create_analysis_sample on every table of IsSampleTable
SpecSample == InitSample /\ [][CreateSample]_vars

\* create_analysis_sample called once more, on the table it returned and
\* with the same include_occupation
CreateSampleAgain ==
    /\ pc = "fit_two_level_models"
    /\ UNCHANGED check_vars
    /\ UNCHANGED model_table
    /\ sample_report' = SampleReport(analysis_sample, include_occupation)
    /\ IF SampleError(analysis_sample) # "none"
       THEN /\ error' = SampleError(analysis_sample)
            /\ pc' = "aborted"
            /\ UNCHANGED analysis_sample
       ELSE /\ analysis_sample' = create_analysis_sample(analysis_sample, include_occupation)
            /\ pc' = "sampled again"
            /\ UNCHANGED error
    /\ UNCHANGED <<survey_raw, admin_raw, survey_with_geo, admin_by_level, merged_data,
                   data_recoded, data_with_indices, data_with_names, data_final,
                   include_occupation, warnings>>
    /\ UNCHANGED analysis_vars

\* create_analysis_sample on every table of IsSampleTable, and on its result
SpecSampleTwice == InitSample /\ [][CreateSample \/ CreateSampleAgain]_vars


-----------------------------------------------------------------------------
(* Inputs of phases 5 and 6: data_final as phase 4 leaves it.  A small     *)
(* table has up to MaxAnalysisRows respondents of two buurten; a large one *)
(* has MIN_OBSERVATIONS + 1 respondents of one buurt and at most one more. *)
MaxAnalysisRows == 3

CoreColumns ==
    {"DV_single", "buurt_id", "b_perc_low40_hh", "age", "sex", "education",
     "employment_status", "born_in_nl"}

SmallLayouts ==
    {CoreColumns \cup {"wealth_index", "wijk_id", "gemeente_id", "w_pop_dens"},
     CoreColumns \cup {"DV_2item_scaled", "DV_3item_scaled", "b_income_ratio"}}

LargeLayout == CoreColumns \cup {"b_pop_dens", "occupation"}

\* respondent p: 1 and 3 live in buurt 1, 2 lives in buurt 2 and was born
\* abroad (born_in_nl = 2), 3 has no occupation; nothing else is missing
AnalysisCell(p, c) ==
    CASE c = "buurt_id" -> Str(ZFill(IF p = 2 THEN <<"2">> ELSE <<"1">>, 8))
      [] c = "wijk_id" -> Str(ZFill(<<"1">>, 6))
      [] c = "gemeente_id" -> Str(ZFill(<<"1">>, 4))
      [] c = "sex" -> Str(<<"Male">>)
      [] c = "employment_status" -> Str(<<"Employed">>)
      [] c = "occupation" -> IF p = 3 THEN NaN ELSE Str(<<"Clerical">>)
      [] c = "born_in_nl" -> Float(IF p = 2 THEN 2 ELSE 1, 1)
      [] c = "age" -> Float(40, 1)
      [] OTHER -> Float(p, 1)

\* the table with the given columns whose rows are the respondents ps
AnalysisFrame(columns, ps) ==
    [cols |-> columns,
     rows |-> [i \in 1..Len(ps) |-> [c \in columns |-> AnalysisCell(ps[i], c)]]]

IsAnalysisTable(t) ==
    \/ \E columns \in SmallLayouts :
          \E k \in 0..MaxAnalysisRows : \E ps \in [1..k -> {1, 2}] :
             t = AnalysisFrame(columns, ps)
    \/ \E extra \in {<<>>, <<2>>, <<3>>} :
          t = AnalysisFrame(LargeLayout, [i \in 1..(MIN_OBSERVATIONS + 1) |-> 1] \o extra)

InitAnalysis ==
    /\ pc = "create_analysis_sample"
    /\ survey_raw = EmptyFrame
    /\ admin_raw = EmptyFrame
    /\ survey_with_geo = EmptyFrame
    /\ admin_by_level = NoLevels
    /\ merged_data = EmptyFrame
    /\ data_recoded = EmptyFrame
    /\ data_with_indices = EmptyFrame
    /\ data_with_names = EmptyFrame
    /\ IsAnalysisTable(data_final)
    /\ include_occupation \in (IF "occupation" \in data_final.cols THEN BOOLEAN ELSE {TRUE})
    /\ analysis_sample = EmptyFrame
    /\ error = "none"
    /\ warnings = {}
    /\ NoChecksYet
    /\ NoAnalysisYet

NextAnalysis ==
    \/ CreateSample
    \/ FitTwoLevel
    \/ CalculateIcc
    \/ RunDiagnostics
    \/ RunSensitivity
    \/ TestH3
    \/ FitFourLevel
    \/ Report

\* main() of run_pipeline.py from the analysis sample to the report
SpecAnalysis == InitAnalysis /\ [][NextAnalysis]_vars

-----------------------------------------------------------------------------
(* Inputs of recode_survey_variables: either the three 7-point items,       *)
(* red_inc_diff with every answer 1..8 or missing, or the demographic items *)
(* with codes inside and outside the lookup tables, every respondent with   *)
(* a birth year and years of education of their own.                        *)
MaxRecodeRows == 2

RecodeLayouts ==
    {{"red_inc_diff"}, {"red_inc_diff", "gov_int"}, {"red_inc_diff", "gov_int", "union_pref"}}

RecodeCell(c) ==
    IF c = "red_inc_diff" THEN {Float(v, 1) : v \in 1..8} \cup {NaN}
    ELSE IF c = "gov_int" THEN {Float(2, 1), Float(8, 1)}
    ELSE {Float(7, 1), NaN}

DemographicColumns ==
    {"red_inc_diff", "sex", "work_status", "occupation_class", "birth_year", "educyrs"}

\* respondent i with the given codes
DemographicRow(i, sex, work_status, occupation_class) ==
    [red_inc_diff |-> Float(4, 1), sex |-> sex, work_status |-> work_status,
     occupation_class |-> occupation_class, birth_year |-> Float(1950 + 10 * i, 1),
     educyrs |-> Float(8 + 4 * i, 1)]

IsRecodeInput(t) ==
    \/ \E columns \in RecodeLayouts :
          \E k \in 1..MaxRecodeRows :
             \E rs \in [1..k -> {f \in [columns -> UNION {RecodeCell(c) : c \in columns}] :
                                   \A c \in columns : f[c] \in RecodeCell(c)}] :
                 t = [cols |-> columns, rows |-> rs]
    \/ \E k \in 1..MaxRecodeRows :
          \E sex \in [1..k -> {Float(1, 1), Float(2, 1), Float(4, 1), NaN}] :
             \E work_status \in [1..k -> {Float(1, 1), Float(9, 1)}] :
                \E occupation_class \in [1..k -> {Float(3, 1), Float(0, 1)}] :
                   t = [cols |-> DemographicColumns,
                        rows |-> [i \in 1..k |->
                                    DemographicRow(i, sex[i], work_status[i],
                                                   occupation_class[i])]]

InitRecode ==
    /\ pc = "recode"
    /\ survey_raw = EmptyFrame
    /\ admin_raw = EmptyFrame
    /\ include_occupation = TRUE
    /\ survey_with_geo = EmptyFrame
    /\ admin_by_level = NoLevels
    /\ IsRecodeInput(merged_data)
    /\ data_recoded = EmptyFrame
    /\ data_with_indices = EmptyFrame
    /\ data_with_names = EmptyFrame
    /\ data_final = EmptyFrame
    /\ analysis_sample = EmptyFrame
    /\ error = "none"
    /\ warnings = {}
    /\ NoChecksYet
    /\ NoAnalysisYet

\* recode_survey_variables called once more, on the table it returned
RecodeAgain ==
    /\ pc = "create_inequality_indices"
    /\ UNCHANGED check_vars
    /\ UNCHANGED model_table
    /\ UNCHANGED sample_report
    /\ data_recoded' = recode_survey_variables(data_recoded)
    /\ pc' = "recoded again"
    /\ UNCHANGED <<survey_raw, admin_raw, survey_with_geo, admin_by_level, merged_data,
                   data_with_indices, data_with_names, data_final, analysis_sample,
                   include_occupation, error, warnings>>
    /\ UNCHANGED analysis_vars

\* recode_survey_variables on every table of IsRecodeInput, and on its result
SpecRecode == InitRecode /\ [][Recode \/ RecodeAgain]_vars

-----------------------------------------------------------------------------
(* Inputs of validate_merge and compare_matched_unmatched: a merged table   *)
(* of up to MaxMergedRows respondents.  Each indicator column is absent     *)
(* (matched = -1) or holds a population count in its first matched rows and *)
(* is missing in the others; DV_single, when the table has it, is answered  *)
(* by everybody.                                                            *)
MaxMergedRows == 5

MergedFrame(n, matched, dv) ==
    LET columns == {"respondent_id"} \cup {LevelChecks[k][2] : k \in {j \in 1..3 : matched[j] >= 0}}
                   \cup (IF dv THEN {"DV_single"} ELSE {})
        cell(c, i) ==
            CASE c = "respondent_id" -> Int64(i)
              [] c = "DV_single" -> Float(50, 1)
              [] OTHER -> IF i <= matched[CHOOSE k \in 1..3 : LevelChecks[k][2] = c]
                          THEN Int64(100) ELSE NaN
    IN [cols |-> columns, rows |-> [i \in 1..n |-> [c \in columns |-> cell(c, i)]]]

IsMergedTable(t) ==
    \E n \in 0..MaxMergedRows : \E kb, kw, kg \in -1..n : \E dv \in BOOLEAN :
        t = MergedFrame(n, <<kb, kw, kg>>, dv)

InitMergeChecks ==
    /\ pc = "validate_merge"
    /\ survey_raw = EmptyFrame
    /\ admin_raw = EmptyFrame
    /\ include_occupation = TRUE
    /\ survey_with_geo = EmptyFrame
    /\ admin_by_level = NoLevels
    /\ IsMergedTable(merged_data)
    /\ data_recoded = EmptyFrame
    /\ data_with_indices = EmptyFrame
    /\ data_with_names = EmptyFrame
    /\ data_final = EmptyFrame
    /\ analysis_sample = EmptyFrame
    /\ error = "none"
    /\ warnings = {}
    /\ NoChecksYet
    /\ NoAnalysisYet

\* validate_merge and compare_matched_unmatched on every table of IsMergedTable
SpecMergeChecks == InitMergeChecks /\ [][ValidateMerge \/ CompareMatched]_vars

-----------------------------------------------------------------------------
(* Inputs of validate_raw_data: a survey of one of SurveySizes respondents, *)
(* with or without a Buurtcode column, whose first `missing` respondents    *)
(* have no geocode, and one of three administrative tables.                 *)
MaxExtra == 1

SurveySizes == {0, 1, 10, MinSurveyN - 1, MinSurveyN, MinSurveyN + MaxExtra}

RawSurvey(n, missing, geocoded) ==
    LET columns == IF geocoded THEN {"respondent_id", "Buurtcode"} ELSE {"respondent_id"}
        cell(c, i) == IF c = "respondent_id" THEN Int64(i)
                      ELSE IF i <= missing THEN NaN ELSE Str(<<"1">>)
    IN [cols |-> columns, rows |-> [i \in 1..n |-> [c \in columns |-> cell(c, i)]]]

IsRawSurvey(t) ==
    \E n \in SurveySizes : \E missing \in {0, n \div 10, n \div 10 + 1, n} \cap 0..n :
        \E geocoded \in BOOLEAN : t = RawSurvey(n, missing, geocoded)

RawAdminTables ==
    {EmptyFrame,
     AdminTable({"WijkenEnBuurten", "AantalInwoners_5"},
                <<Str(BU \o ZFill(<<"1">>, 8)), Str(WK \o ZFill(<<>>, 6))>>),
     [cols |-> {"region_code", "region_type"},
      rows |-> <<[region_code |-> Str(BU \o ZFill(<<"1">>, 8)),
                  region_type |-> Str(<<"B", "u", "u", "r", "t">>)],
                 [region_code |-> Str(GM \o ZFill(<<>>, 4)),
                  region_type |-> Str(<<"G", "e", "m", "e", "e", "n", "t", "e">>)]>>]}

InitValidate ==
    /\ pc = "validate_raw_data"
    /\ IsRawSurvey(survey_raw)
    /\ admin_raw \in RawAdminTables
    /\ include_occupation = TRUE
    /\ NothingYet

\* phase 1 and the first step of phase 2 on every survey of IsRawSurvey
SpecValidate == InitValidate /\ [][Validate \/ CreateGeoIds]_vars

-----------------------------------------------------------------------------
(* Inputs of the two model sequences: a table of MIN_OBSERVATIONS or        *)
(* MIN_OBSERVATIONS + 1 respondents with an occupation, followed by at most *)
(* one respondent without, handed to fit_two_level_models as the analysis   *)
(* sample or to fit_four_level_models as data_final.                        *)
SequenceLayouts ==
    {CoreColumns \cup {"b_pop_dens", "wijk_id", "gemeente_id"},
     CoreColumns \cup {"b_pop_dens", "wijk_id", "gemeente_id", "occupation"}}

IsSequenceTable(t) ==
    \E columns \in SequenceLayouts : \E n \in {MIN_OBSERVATIONS, MIN_OBSERVATIONS + 1} :
        \E extra \in {<<>>, <<3>>} :
            t = AnalysisFrame(columns, [i \in 1..n |-> 1] \o extra)

InitSequences ==
    /\ pc \in {"fit_two_level_models", "fit_four_level_models"}
    /\ survey_raw = EmptyFrame
    /\ admin_raw = EmptyFrame
    /\ survey_with_geo = EmptyFrame
    /\ admin_by_level = NoLevels
    /\ merged_data = EmptyFrame
    /\ data_recoded = EmptyFrame
    /\ data_with_indices = EmptyFrame
    /\ data_with_names = EmptyFrame
    /\ IsSequenceTable(data_final)
    /\ analysis_sample = data_final
    /\ include_occupation = TRUE
    /\ error = "none"
    /\ warnings = {}
    /\ NoChecksYet
    /\ NoAnalysisYet

\* each of the two fitting functions on every table of IsSequenceTable
SpecSequences == InitSequences /\ [][FitTwoLevel \/ FitFourLevel]_vars

\* the core transformations, each on tables it does write into: the
\* pipeline from the raw tables to the analysis sample, and the two model
\* sequences on tables that have the columns of the model formulas, with
\* and without a respondent whose ids are missing
\* a table of respondents the last of whom has no geocode: their three ids
\* are missing, as create_geo_ids leaves them (transform.py:60, 67)
UngeocodedFrame(ps) ==
    LET t == AnalysisFrame(CoreColumns \cup {"wijk_id", "gemeente_id", "w_pop_dens"}, ps)
    IN [cols |-> t.cols,
        rows |-> [i \in 1..len(t) |->
                    [c \in t.cols |->
                        IF i = len(t) /\ c \in {"buurt_id", "wijk_id", "gemeente_id"}
                        THEN NaN ELSE t.rows[i][c]]]]

InitUngeocoded ==
    /\ pc \in {"fit_two_level_models", "fit_four_level_models"}
    /\ survey_raw = EmptyFrame
    /\ admin_raw = EmptyFrame
    /\ survey_with_geo = EmptyFrame
    /\ admin_by_level = NoLevels
    /\ merged_data = EmptyFrame
    /\ data_recoded = EmptyFrame
    /\ data_with_indices = EmptyFrame
    /\ data_with_names = EmptyFrame
    /\ \E k \in 1..MaxAnalysisRows : \E ps \in [1..k -> {1, 2}] :
          data_final = UngeocodedFrame(ps)
    /\ analysis_sample = data_final
    /\ include_occupation = TRUE
    /\ error = "none"
    /\ warnings = {}
    /\ NoChecksYet
    /\ NoAnalysisYet

InitTransformations == Init \/ InitSequences \/ InitUngeocoded

SpecTransformations ==
    InitTransformations /\ [][Next \/ FitTwoLevel \/ FitFourLevel]_vars

-----------------------------------------------------------------------------
(* Inputs of create_model_table: four fitted models, M1 with the key        *)
(* predictor, M2 and M3 with age as well, every estimate one of Estimates   *)
(* (a coefficient and its standard error, in hundredths).                   *)
Estimates ==
    {<<330, 100>>, <<329, 100>>, <<-259, 100>>, <<258, 100>>, <<197, 100>>, <<-196, 100>>,
     <<50, 0>>, <<50, -1>>, <<-1, 25>>}

\* a cell of hundredths; -1 stands for nan
Hundredths(v) == IF v = -1 THEN NaN ELSE Float(v, 100)

\* the parameters and standard errors of a model with the given estimates
\* of its fixed effects, besides the intercept and the group variance
Estimated(es) ==
    [params |-> [p \in {"Intercept", "Group Var"} \cup DOMAIN es |->
                    IF p = "Intercept" THEN Float(50, 1)
                    ELSE IF p = "Group Var" THEN Float(1, 4) ELSE Hundredths(es[p][1])],
     bse |-> [p \in {"Intercept", "Group Var"} \cup DOMAIN es |->
                    IF p \in {"Intercept", "Group Var"} THEN Float(1, 10)
                    ELSE Hundredths(es[p][2])]]

IsFittedSequence(ms) ==
    \E e1, e2, e3, a2, a3 \in Estimates :
        ms = [m0_empty |-> Estimated(<<>>),
              m1_key_pred |-> Estimated([p \in {"b_perc_low40_hh"} |-> e1]),
              m2_ind_controls |-> Estimated([p \in {"b_perc_low40_hh", "age"} |->
                                               IF p = "age" THEN a2 ELSE e2]),
              m3_buurt_controls |-> Estimated([p \in {"b_perc_low40_hh", "age"} |->
                                                 IF p = "age" THEN a3 ELSE e3])]

InitTable ==
    /\ pc = "create_model_table"
    /\ survey_raw = EmptyFrame
    /\ admin_raw = EmptyFrame
    /\ include_occupation = TRUE
    /\ survey_with_geo = EmptyFrame
    /\ admin_by_level = NoLevels
    /\ merged_data = EmptyFrame
    /\ data_recoded = EmptyFrame
    /\ data_with_indices = EmptyFrame
    /\ data_with_names = EmptyFrame
    /\ data_final = EmptyFrame
    /\ analysis_sample = EmptyFrame
    /\ error = "none"
    /\ warnings = {}
    /\ NoChecksYet
    /\ IsFittedSequence(models)
    /\ icc_results = None
    /\ diagnostics = None
    /\ sensitivity = None
    /\ h3_results = None
    /\ four_level_models = None
    /\ four_level_icc = None
    /\ report = None
    /\ fits = <<>>
    /\ output = <<>>

\* create_model_table on every sequence of IsFittedSequence
SpecTable == InitTable /\ [][CreateModelTable]_vars

-----------------------------------------------------------------------------
(* Properties *)

\* b is u left-padded with "0" to at least width characters, never truncated
IsZeroPadded(b, u, width) ==
    /\ Len(b) = (IF Len(u) > width THEN Len(u) ELSE width)
    /\ \A k \in 1..Len(u) : b[Len(b) - Len(u) + k] = u[k]
    /\ \A k \in 1..(Len(b) - Len(u)) : b[k] = "0"

\* w is the first k characters of b
IsPrefixOfLength(w, b, k) ==
    /\ Len(w) = k
    /\ Len(b) >= k
    /\ \A j \in 1..k : w[j] = b[j]

\* t without one trailing ".0"
WithoutDotZero(t) ==
    IF Len(t) >= 2 /\ t[Len(t) - 1] = "." /\ t[Len(t)] = "0"
    THEN [k \in 1..(Len(t) - 2) |-> t[k]]
    ELSE t

GeoIdsCreated == pc # "create_geo_ids" /\ survey_raw # EmptyFrame

\* C3: after create_geo_ids, every respondent with a non-missing Buurtcode has
\* wijk_id = buurt_id[0:6] and gemeente_id = buurt_id[0:4]; respondents with
\* the same buurt_id have the same wijk_id and gemeente_id, and respondents
\* with the same wijk_id have the same gemeente_id.
C3_NestedIds ==
    GeoIdsCreated =>
        /\ len(survey_with_geo) = len(survey_raw)
        /\ \A i \in 1..len(survey_with_geo) :
              LET r == survey_with_geo.rows[i]
              IN notna(survey_raw.rows[i]["Buurtcode"]) =>
                    /\ r["buurt_id"].t = "str"
                    /\ r["wijk_id"].t = "str"
                    /\ r["gemeente_id"].t = "str"
                    /\ IsPrefixOfLength(r["wijk_id"].s, r["buurt_id"].s, 6)
                    /\ IsPrefixOfLength(r["gemeente_id"].s, r["buurt_id"].s, 4)
        /\ \A i, j \in 1..len(survey_with_geo) :
              LET r == survey_with_geo.rows[i]
                  q == survey_with_geo.rows[j]
              IN /\ (notna(r["buurt_id"]) /\ r["buurt_id"] = q["buurt_id"]) =>
                        (r["wijk_id"] = q["wijk_id"] /\ r["gemeente_id"] = q["gemeente_id"])
                 /\ (notna(r["wijk_id"]) /\ r["wijk_id"] = q["wijk_id"]) =>
                        r["gemeente_id"] = q["gemeente_id"]

\* two respondents whose codes differ as text ("3630100" and "3630100.0") and
\* who are in the same buurt, hence in the same wijk and gemeente
C3_Witness ==
    /\ GeoIdsCreated
    /\ \E i, j \in 1..len(survey_with_geo) :
          /\ survey_raw.rows[i]["Buurtcode"] = Str(CodeBase)
          /\ survey_raw.rows[j]["Buurtcode"] = Str(CodeBase \o <<".", "0">>)
          /\ survey_with_geo.rows[i]["buurt_id"] = survey_with_geo.rows[j]["buurt_id"]
          /\ survey_with_geo.rows[i]["wijk_id"] = Str(<<"0", "3", "6", "3", "0", "1">>)
          /\ survey_with_geo.rows[j]["gemeente_id"] = Str(<<"0", "3", "6", "3">>)

\* C4: after create_geo_ids, a respondent with a missing Buurtcode has
\* buurt_id, wijk_id and gemeente_id all missing, and no respondent has some
\* of the three ids missing and others not.
C4_MissingTogether ==
    GeoIdsCreated =>
        \A i \in 1..len(survey_with_geo) :
            LET r == survey_with_geo.rows[i]
            IN /\ isna(survey_raw.rows[i]["Buurtcode"]) =>
                     (isna(r["buurt_id"]) /\ isna(r["wijk_id"]) /\ isna(r["gemeente_id"]))
               /\ isna(r["buurt_id"]) = isna(r["wijk_id"])
               /\ isna(r["buurt_id"]) = isna(r["gemeente_id"])

\* a respondent without a code next to one with a code
C4_Witness ==
    /\ GeoIdsCreated
    /\ \E i, j \in 1..len(survey_with_geo) :
          /\ isna(survey_raw.rows[i]["Buurtcode"])
          /\ isna(survey_with_geo.rows[i]["gemeente_id"])
          /\ notna(survey_raw.rows[j]["Buurtcode"])
          /\ notna(survey_with_geo.rows[j]["gemeente_id"])

\* C6: for every non-missing raw code, buurt_id is the text of the code with
\* one trailing ".0" removed, left-padded with zeros to 8 characters and kept
\* whole when longer; Buurtcode "3630100" gives "03630100", "036301", "0363".
C6_PaddedCode ==
    GeoIdsCreated =>
        \A i \in 1..len(survey_with_geo) :
            LET raw == survey_raw.rows[i]["Buurtcode"]
                r == survey_with_geo.rows[i]
            IN /\ notna(raw) =>
                     /\ r["buurt_id"].t = "str"
                     /\ IsZeroPadded(r["buurt_id"].s, WithoutDotZero(AsTypeStr(raw).s), 8)
               /\ raw = Str(<<"3", "6", "3", "0", "1", "0", "0">>) =>
                     /\ r["buurt_id"] = Str(<<"0", "3", "6", "3", "0", "1", "0", "0">>)
                     /\ r["wijk_id"] = Str(<<"0", "3", "6", "3", "0", "1">>)
                     /\ r["gemeente_id"] = Str(<<"0", "3", "6", "3">>)

\* the code "3630100" next to a code of 9 characters that is kept whole
C6_Witness ==
    /\ GeoIdsCreated
    /\ \E i \in 1..len(survey_with_geo) :
          /\ survey_raw.rows[i]["Buurtcode"] = Str(CodeBase)
          /\ survey_with_geo.rows[i]["buurt_id"].s = <<"0">> \o CodeBase
    /\ \E i \in 1..len(survey_with_geo) :
          /\ Len(survey_raw.rows[i]["Buurtcode"].s) = 9
          /\ survey_with_geo.rows[i]["buurt_id"] = survey_raw.rows[i]["Buurtcode"]

LevelsPrepared ==
    pc \notin {"create_geo_ids", "prepare_admin", "aborted"} /\ admin_raw # EmptyFrame

\* the accepted column with the highest priority that the table has
ExpectedRegionCol ==
    IF "region_code" \in admin_raw.cols THEN "region_code"
    ELSE IF "Codering_3" \in admin_raw.cols THEN "Codering_3"
    ELSE "WijkenEnBuurten"

\* the region code of an administrative row, without surrounding blanks
CleanCode(r) == Strip(AsTypeStr(r[ExpectedRegionCol]).s)

HasPrefix(r, p) ==
    Len(CleanCode(r)) >= 2 /\ CleanCode(r)[1] = p[1] /\ CleanCode(r)[2] = p[2]

LevelPrefix == [buurt |-> BU, wijk |-> WK, gemeente |-> GM]

\* the parsed ids of the rows of admin_raw that carry the prefix of level k
ParsedIds(k) ==
    {Strip(Drop(CleanCode(admin_raw.rows[i]), 2)) :
        i \in {j \in 1..len(admin_raw) : HasPrefix(admin_raw.rows[j], LevelPrefix[k])}}

LevelKeys == {"buurt", "wijk", "gemeente"}
IdColumn == [buurt |-> "buurt_id", wijk |-> "wijk_id", gemeente |-> "gemeente_id"]
IdWidth == [buurt |-> 8, wijk |-> 6, gemeente |-> 4]
TracerColumn == [buurt |-> "b_pop_total", wijk |-> "w_pop_total", gemeente |-> "g_pop_total"]

\* C7: each non-empty level table has one row per distinct id of its level,
\* no id twice, and every id is a parsed region_id left-padded with zeros to
\* the width of the level (8, 6, 4).
C7_OneRowPerId ==
    LevelsPrepared =>
        \A k \in LevelKeys :
            LET T == admin_by_level[k]
                ids == {T.rows[i][IdColumn[k]] : i \in 1..len(T)}
            IN /\ (len(T) = 0) = (ParsedIds(k) = {})
               /\ \A i, j \in 1..len(T) :
                     T.rows[i][IdColumn[k]] = T.rows[j][IdColumn[k]] => i = j
               /\ \A x \in ids :
                     /\ x.t = "str"
                     /\ \E u \in ParsedIds(k) : IsZeroPadded(x.s, u, IdWidth[k])
               /\ \A u \in ParsedIds(k) :
                     \E x \in ids : IsZeroPadded(x.s, u, IdWidth[k])

\* two buurt rows whose ids are padded to the same id, of which one is kept
C7_Witness ==
    /\ LevelsPrepared
    /\ Cardinality(ParsedIds("buurt")) = 2
    /\ len(admin_by_level.buurt) = 1
    /\ admin_by_level.buurt.rows[1]["buurt_id"] = Str(ZFill(<<"1">>, 8))

\* C8: a row whose code starts with none of BU, WK, GM is in no level table,
\* and a row with one of these prefixes is in no table of another level
\* (rows are told apart by AantalInwoners_5, which holds the row number).
C8_OwnLevelOnly ==
    LevelsPrepared =>
        \A i \in 1..len(admin_raw) : \A k \in LevelKeys :
            (\E j \in 1..len(admin_by_level[k]) :
                admin_by_level[k].rows[j][TracerColumn[k]]
                    = admin_raw.rows[i]["AantalInwoners_5"])
            => HasPrefix(admin_raw.rows[i], LevelPrefix[k])

\* a row with the prefix XX next to a wijk row that is in the wijk table
C8_Witness ==
    /\ LevelsPrepared
    /\ \E i, j \in 1..len(admin_raw) :
          /\ CleanCode(admin_raw.rows[i]) = <<"X", "X", "1">>
          /\ HasPrefix(admin_raw.rows[j], WK)
          /\ len(admin_by_level.wijk) = 1
          /\ len(admin_by_level.buurt) = 0
          /\ len(admin_by_level.gemeente) = 0

Merged == pc \notin {"create_geo_ids", "prepare_admin", "merge", "aborted"}

\* C1: merged on level tables that prepare_admin_by_level returned, the result
\* has as many rows as the survey, and row i of it is respondent i.
C1_RowCountPreserved ==
    (Merged /\ admin_raw # EmptyFrame) =>
        /\ len(merged_data) = len(survey_with_geo)
        /\ \A i \in 1..len(survey_with_geo) :
              \A c \in survey_with_geo.cols :
                  merged_data.rows[i][c] = survey_with_geo.rows[i][c]

\* two respondents of one buurt matched to a buurt table that was built from
\* two rows with the same padded id
C1_Witness ==
    /\ Merged
    /\ admin_raw # EmptyFrame
    /\ Cardinality(ParsedIds("buurt")) = 2
    /\ len(admin_by_level.buurt) = 1
    /\ len(merged_data) = 2
    /\ "b_pop_total" \in merged_data.cols
    /\ \A i \in 1..2 : notna(merged_data.rows[i]["b_pop_total"])

\* C2 (as claimed): when the merge changes the number of respondent rows, the
\* caller gets a failure and not the altered table.
C2_RowCountChangeIsFailure ==
    (Merged /\ len(merged_data) # len(survey_with_geo)) => error # "none"


SampleCreated == pc \notin {"create_geo_ids", "prepare_admin", "merge", "recode",
                            "create_inequality_indices", "add_geographic_names",
                            "standardize_context_vars", "create_analysis_sample", "aborted"}

\* the columns the claim names: outcome, cluster id, core covariates, buurt
\* controls, key predictor, and occupation when it is requested
ClaimedRequired ==
    {"DV_single", "buurt_id", "age", "sex", "education", "employment_status", "born_in_nl",
     "b_pop_dens", "b_pop_over_65", "b_pop_nonwest", "b_perc_low_inc_hh", "b_perc_soc_min_hh",
     "b_perc_low40_hh"}
    \cup (IF include_occupation THEN {"occupation"} ELSE {})

\* C10: the table create_analysis_sample returns has no missing value in a
\* required column that the input has, its rows are rows of the input, and
\* every buurt_id in it occurs in at least MIN_CLUSTER_SIZE of its rows.
C10_CompleteClusters ==
    SampleCreated =>
        /\ \A i \in 1..len(analysis_sample) :
              LET r == analysis_sample.rows[i]
              IN /\ \A c \in ClaimedRequired \cap data_final.cols : notna(r[c])
                 /\ \E j \in 1..len(data_final) : data_final.rows[j] = r
                 /\ Cardinality({j \in 1..len(analysis_sample) :
                        analysis_sample.rows[j]["buurt_id"] = r["buurt_id"]}) >= MIN_CLUSTER_SIZE

\* a complete cluster of two is kept; a row with a missing occupation and a
\* cluster that is left with one complete row are dropped
C10_Witness ==
    /\ SampleCreated
    /\ include_occupation
    /\ len(data_final) = 3
    /\ len(analysis_sample) = 2
    /\ "occupation" \in data_final.cols
    /\ \E j \in 1..len(data_final) :
          isna(data_final.rows[j]["occupation"]) /\ notna(data_final.rows[j]["DV_single"])
             /\ notna(data_final.rows[j]["buurt_id"])

-----------------------------------------------------------------------------
(* run_pipeline.py: the geographic ids through the later phases; the abort *)

\* the tables main() holds after the merge, in the order it builds them
StageTables ==
    <<merged_data, data_recoded, data_with_indices, data_with_names, data_final,
      analysis_sample>>

GeoIdColumns == {"buurt_id", "wijk_id", "gemeente_id"}

\* C5 (as claimed): in every table built after create_geo_ids, a respondent
\* whose Buurtcode is missing has a missing buurt_id, wijk_id and gemeente_id.
C5_MissingIdsStayMissing ==
    \A k \in DOMAIN StageTables :
        \A i \in 1..len(StageTables[k]) :
            isna(StageTables[k].rows[i]["Buurtcode"]) =>
                \A c \in GeoIdColumns : isna(StageTables[k].rows[i][c])

\* the administrative table has none of the accepted region-code columns
NoRegionColumn == {"region_code", "Codering_3", "WijkenEnBuurten"} \cap admin_raw.cols = {}

RaisedInPrepareAdmin ==
    error = "ValueError: Cannot identify region code column in admin data"

\* C9: with none of region_code, Codering_3, WijkenEnBuurten in the
\* administrative table, prepare_admin_by_level raises and returns no level
\* table, and main() ends there: no merge, no later phase, no table built
\* after the geographic ids, no warning but that of phase 1.  With one of the
\* three columns it does not raise.
C9_NoRegionColumnAborts ==
    /\ (NoRegionColumn /\ pc \notin {"validate_raw_data", "create_geo_ids", "prepare_admin"}) =>
          /\ pc = "aborted"
          /\ RaisedInPrepareAdmin
          /\ admin_by_level = NoLevels
          /\ \A k \in DOMAIN StageTables : StageTables[k] = EmptyFrame
          /\ warnings \subseteq {"Warning: Raw data validation failed. Continuing anyway..."}
    /\ RaisedInPrepareAdmin => NoRegionColumn

\* the run has ended in prepare_admin_by_level, after the geographic ids of
\* two respondents were built, on a table that has other columns only
C9_Witness ==
    /\ pc = "aborted"
    /\ RaisedInPrepareAdmin
    /\ NoRegionColumn
    /\ admin_raw.cols = {"gemeente_name", "AantalInwoners_5"}
    /\ len(survey_with_geo) = 2
    /\ merged_data = EmptyFrame

-----------------------------------------------------------------------------
(* merge.py: the order of the two filters of create_analysis_sample *)

\* row j of the input of create_analysis_sample is a complete case
IsCompleteCase(j) ==
    \A c \in ClaimedRequired \cap data_final.cols : notna(data_final.rows[j][c])

\* the complete cases of the input whose buurt_id is v
CompleteRowsOf(v) ==
    {j \in 1..len(data_final) : IsCompleteCase(j) /\ data_final.rows[j]["buurt_id"] = v}

\* C11: cluster sizes are counted on the rows that survived the complete-case
\* filter: the sample is exactly the complete cases whose buurt_id has at
\* least MIN_CLUSTER_SIZE complete cases, so a cluster with enough rows in
\* the input but fewer complete rows is removed entirely.
C11_CompleteCasesThenClusters ==
    SampleCreated =>
        /\ \A i \in 1..len(analysis_sample) :
              Cardinality(CompleteRowsOf(analysis_sample.rows[i]["buurt_id"]))
                  >= MIN_CLUSTER_SIZE
        /\ \A j \in 1..len(data_final) :
              (IsCompleteCase(j)
               /\ Cardinality(CompleteRowsOf(data_final.rows[j]["buurt_id"]))
                     >= MIN_CLUSTER_SIZE)
              => \E i \in 1..len(analysis_sample) :
                    analysis_sample.rows[i] = data_final.rows[j]

\* a buurt with two rows in the input, one of them incomplete in a column
\* other than buurt_id, has no row in the sample
C11_Witness ==
    /\ SampleCreated
    /\ \E v \in {data_final.rows[j]["buurt_id"] : j \in 1..len(data_final)} :
          /\ notna(v)
          /\ Cardinality({j \in 1..len(data_final) :
                             data_final.rows[j]["buurt_id"] = v}) >= MIN_CLUSTER_SIZE
          /\ Cardinality(CompleteRowsOf(v)) = 1
          /\ \A i \in 1..len(analysis_sample) : analysis_sample.rows[i]["buurt_id"] # v

-----------------------------------------------------------------------------
(* run_pipeline.py, analyze.py: the tables the models are fitted on *)

\* the table call f hands to mixedlm is a complete-case table for the formula
IsCompleteCaseTable(f) ==
    \A i \in 1..len(f.data) :
        \A c \in FormulaColumns(f.formula, f.groups) \cap f.data.cols :
            notna(f.data.rows[i][c])

\* every cluster of the table of call f has at least MIN_CLUSTER_SIZE rows
HasFullClusters(f) ==
    \A i \in 1..len(f.data) :
        ValueCount(f.data, f.groups, f.data.rows[i][f.groups]) >= MIN_CLUSTER_SIZE

\* C12: every table a random-intercept model is fitted on (two-level and
\* four-level sequence, sensitivity specifications, H3 models) is a
\* complete-case table whose buurt_id clusters all have at least
\* MIN_CLUSTER_SIZE rows.
C12_FittedTablesAreCompleteWithFullClusters ==
    \A i \in DOMAIN fits :
        fits[i].groups \in fits[i].data.cols =>
            IsCompleteCaseTable(fits[i]) /\ HasFullClusters(fits[i])

-----------------------------------------------------------------------------
(* transform.py: the rescaled outcome columns *)

\* the answer of respondent i to red_inc_diff, as the survey holds it
RawItem(i) == merged_data.rows[i]["red_inc_diff"]

\* C13: for every respondent with red_inc_diff in 1..7 the recoded table has
\* DV_single = (red_inc_diff - 1) / 6 * 100, a value in [0, 100] with 1 -> 0,
\* 4 -> 50 and 7 -> 100; a red_inc_diff of 8 (refused) gives a missing
\* DV_single.
C13_DvSingleIsRescaledItem ==
    pc = "create_inequality_indices" =>
        \A i \in 1..len(merged_data) :
            LET y == data_recoded.rows[i]["DV_single"]
            IN /\ \A v \in 1..7 :
                     EqualsInt(RawItem(i), v) =>
                        /\ y = Float((v - 1) * 100, 6)
                        /\ y.n >= 0 /\ y.n <= 100 * y.d
                        /\ (v = 1 => y = Float(0, 1))
                        /\ (v = 4 => y = Float(50, 1))
                        /\ (v = 7 => y = Float(100, 1))
               /\ EqualsInt(RawItem(i), 8) => isna(y)

\* a recoded table with a respondent at the midpoint (4 -> 50) and one who
\* refused (8 -> missing)
C13_Witness ==
    /\ pc = "create_inequality_indices"
    /\ \E i, j \in 1..len(merged_data) :
          /\ EqualsInt(RawItem(i), 4) /\ data_recoded.rows[i]["DV_single"] = Float(50, 1)
          /\ EqualsInt(RawItem(j), 8) /\ isna(data_recoded.rows[j]["DV_single"])

\* the rescaled outcome columns of a table
ScaledOutcomes(df) ==
    [i \in 1..len(df) |->
        [c \in {"DV_single", "DV_2item_scaled", "DV_3item_scaled"} \cap df.cols |->
            df.rows[i][c]]]

\* C14: recode_survey_variables applied to a table it has already recoded
\* leaves DV_single, DV_2item_scaled and DV_3item_scaled of every respondent
\* unchanged: the rescaling starts from the raw items each time.
C14_RecodingAgainKeepsOutcomes ==
    [][RecodeAgain => ScaledOutcomes(data_recoded') = ScaledOutcomes(data_recoded)]_vars

\* a table recoded twice in which a respondent has a rescaled outcome that
\* differs from the raw answer
C14_Witness ==
    /\ pc = "recoded again"
    /\ {"DV_single", "DV_2item_scaled", "DV_3item_scaled"} \subseteq data_recoded.cols
    /\ \E i \in 1..len(data_recoded) :
          /\ notna(data_recoded.rows[i]["DV_3item_scaled"])
          /\ EqualsInt(RawItem(i), 2)
          /\ data_recoded.rows[i]["DV_single"] = Float(50, 3)

-----------------------------------------------------------------------------
(* transform.py, run_pipeline.py: the inequality indices *)

\* create_inequality_indices has returned
IndicesCreated ==
    \/ pc \in {"add_geographic_names", "standardize_context_vars", "create_analysis_sample",
               "fit_two_level_models"}
    \/ pc = "aborted" /\ data_with_indices # EmptyFrame

\* C15: for each prefix b_, w_, g_ whose two share columns exist, every row
\* has income_polarization = low40 + high20 and income_ratio =
\* high20 / (|low40| + 0.01), a defined value also when low40 is 0; the
\* shares the indices are computed from are those of the merged data, not
\* yet standardized.
C15_IndicesFromUnstandardizedShares ==
    IndicesCreated =>
        \A k \in 1..3 :
            {ContextPrefixes[k] \o "perc_low40_hh", ContextPrefixes[k] \o "perc_high20_hh"}
                \subseteq data_recoded.cols
            => \A i \in 1..len(data_with_indices) :
                  LET low40 == merged_data.rows[i][ContextPrefixes[k] \o "perc_low40_hh"]
                      high20 == merged_data.rows[i][ContextPrefixes[k] \o "perc_high20_hh"]
                      made == data_with_indices.rows[i]
                  IN /\ made[ContextPrefixes[k] \o "income_polarization"] = Add(low40, high20)
                     /\ made[ContextPrefixes[k] \o "income_ratio"]
                           = Div(high20, Add(AbsCell(low40), Float(1, 100)))
                     /\ notna(low40) /\ notna(high20)
                           => notna(made[ContextPrefixes[k] \o "income_ratio"])

\* a respondent of a gemeente whose low40 share is 0 and whose high20 share
\* is 30: the ratio is 30 / 0.01, and the standardized table has been made
C15_Witness ==
    /\ pc = "create_analysis_sample"
    /\ "g_income_ratio" \in data_with_indices.cols
    /\ \E i \in 1..len(data_with_indices) :
          /\ merged_data.rows[i]["g_perc_low40_hh"] = Float(0, 1)
          /\ data_with_indices.rows[i]["g_income_ratio"] = Float(3000, 1)
          /\ data_with_indices.rows[i]["g_income_polarization"] = Float(30, 1)

-----------------------------------------------------------------------------
(* analyze.py: the model sequences *)

\* calls i and i + 1 are consecutive models of one of the two sequences
ConsecutiveModels(i) ==
    /\ fits[i].caller \in {"fit_two_level_models", "fit_four_level_models"}
    /\ fits[i + 1].caller = fits[i].caller

\* C16: in the two-level sequence M0..M3 and the four-level sequence M0..M4
\* the fixed-effect terms of each model are a strict superset of those of the
\* model before it, and every model has outcome DV_single and groups
\* buurt_id.
C16_EachModelExtendsThePrevious ==
    \A i \in 1..(Len(fits) - 1) :
        ConsecutiveModels(i) =>
            /\ FixedEffects(fits[i].formula) \subseteq FixedEffects(fits[i + 1].formula)
            /\ FixedEffects(fits[i].formula) # FixedEffects(fits[i + 1].formula)
            /\ fits[i].formula.outcome = "DV_single"
            /\ fits[i + 1].formula.outcome = "DV_single"
            /\ fits[i].groups = "buurt_id"
            /\ fits[i + 1].groups = "buurt_id"

-----------------------------------------------------------------------------
(* analyze.py, run_pipeline.py: failures of the estimation *)

\* the models of the sequence of the given caller that were attempted
Attempted(caller) == {fits[j].model : j \in {k \in DOMAIN fits : fits[k].caller = caller}}

\* C17: when the estimation of one model of the two-level sequence fails,
\* fit_two_level_models catches the failure and reports it, still attempts
\* the other models and returns, and the pipeline is not aborted.
C17_TwoLevelFailureIsCaught ==
    \A i \in DOMAIN fits :
        (fits[i].caller = "fit_two_level_models" /\ ~fits[i].ok) =>
            /\ pc # "aborted"
            /\ models # None
            /\ Attempted("fit_two_level_models") = {"m0", "m1", "m2", "m3"}

\* C18: when a model of the four-level sequence fails, run_pipeline still
\* reaches the report phase with the two-level models, the ICC, the
\* diagnostics and the sensitivity results intact, and the four-level models
\* fitted before the failing one are kept for the caller.
C18_FourLevelFailureKeepsEarlierModels ==
    \A i \in DOMAIN fits :
        (fits[i].caller = "fit_four_level_models" /\ ~fits[i].ok) =>
            /\ pc \in {"report", "done"}
            /\ models # None /\ icc_results # None /\ diagnostics # None
            /\ pc = "done" =>
                  /\ report.models = models
                  /\ report.icc = icc_results.icc
                  /\ report.sensitivity = sensitivity
            /\ fits[i].model # "m0" => four_level_models # None

\* run_sensitivity has returned
SensitivityDone == pc \in {"test_h3", "fit_four_level_models", "report", "done"}

\* specification i was started, its except clause printed the error, its
\* estimation raised / succeeded, it has a row in the result table
SensitivityRan(i) == \E p \in DOMAIN output : output[p] = SensitivityStarts[i]
SensitivityLogged(i) ==
    \E p \in 1..(Len(output) - 1) :
        output[p] = SensitivityStarts[i] /\ output[p + 1] = "    Error: "
SensitivityFailed(i) ==
    \E j \in DOMAIN fits :
        fits[j].caller = "run_sensitivity" /\ fits[j].model = SensitivityNames[i] /\ ~fits[j].ok
SensitivityFitted(i) ==
    \E j \in DOMAIN fits :
        fits[j].caller = "run_sensitivity" /\ fits[j].model = SensitivityNames[i] /\ fits[j].ok
SensitivityInTable(i) ==
    \E r \in DOMAIN sensitivity : sensitivity[r].specification = SensitivityNames[i]

-----------------------------------------------------------------------------
(* analyze.py: the intraclass correlation *)

\* the variances of the empty model of a container, as floats
VarBuurt(ms) == Float(ms.m0_empty.cov_re, 1)
VarResidual(ms) == Float(ms.m0_empty.scale, 1)

\* the container with the variances of M1..M3 replaced by the pair vc
WithOtherModels(ms, vc) ==
    [ms EXCEPT !.m1_key_pred.cov_re = vc[1], !.m1_key_pred.scale = vc[2],
               !.m2_ind_controls.cov_re = vc[1], !.m2_ind_controls.scale = vc[2],
               !.m3_buurt_controls.cov_re = vc[1], !.m3_buurt_controls.scale = vc[2]]

\* a and b differ by at most a few roundings: their relative difference is
\* at most 2^-(MantissaBits - 2)
CloseFloats(a, b) ==
    LET diff == AbsCell(Sub(a, b))
    IN diff.n * Pow2(MantissaBits - 2) * b.d <= Abs(b.n) * diff.d

\* what calculate_icc returns is computed from M0 alone, and the four-level
\* ICC of an M0 with the same variances is the same
IccReadsOnlyM0 ==
    /\ icc_results.var_buurt = VarBuurt(models)
    /\ icc_results.var_residual = VarResidual(models)
    /\ icc_results.var_total = FloatAdd(VarBuurt(models), VarResidual(models))
    /\ icc_results.icc = FloatDiv(VarBuurt(models), icc_results.var_total)
    /\ icc_results.pct_within
          = FloatDiv(FloatMul(Float(100, 1), VarResidual(models)), icc_results.var_total)
    /\ \A vc \in VarianceComponents :
          calculate_icc(WithOtherModels(models, vc)) = icc_results
    /\ (/\ four_level_icc # None
        /\ four_level_models.m0_empty.cov_re = models.m0_empty.cov_re
        /\ four_level_models.m0_empty.scale = models.m0_empty.scale
        /\ icc_results.var_total.n > 0)
       => four_level_icc.icc_buurt = icc_results.icc

RawItems == <<"red_inc_diff", "birth_year", "educyrs">>

\* the raw item c has an answer (for red_inc_diff: not the refusal code 8)
\* among the rows with a buurt match and among the rows without one
AnsweredInBothGroups(data, c) ==
    /\ c \in data.cols
    /\ \A m \in BOOLEAN :
          \E i \in GroupVals(data, c, m) : ~EqualsInt(data.rows[i][c], 8)

\* the variables the comparison has a test row for
ComparedVariables == {matched_comparison.rows[j].variable.s[1] : j \in 1..len(matched_comparison)}

\* C21: whenever the merged survey holds answers to the raw outcome, birth-year
\* and education items among both the respondents matched to a buurt and the
\* unmatched ones, the comparison of the merge phase has one test row for each
\* of DV_single, age_raw and education.
C21_ComparisonTestsEveryContinuousVariable ==
    (/\ matched_comparison # None
     /\ "b_pop_total" \in merged_data.cols
     /\ \A k \in 1..3 : AnsweredInBothGroups(merged_data, RawItems[k]))
    => /\ len(matched_comparison) = 3
       /\ ComparedVariables = {"DV_single", "age_raw", "education"}


\* the record validate_merge returned for level k, if any
RecordsOfLevel(k) ==
    {j \in DOMAIN merge_validation : merge_validation[j].level = LevelChecks[k][1]}

\* C22: validate_merge never ends the run.  For a merged table of at least one
\* row it returns exactly one record for each level whose indicator column
\* exists, with n_matched + n_missing = total rows and pct_matched =
\* 100 * n_matched / total; the level is reported LOW exactly when that
\* percentage is below 80 and OK otherwise, and main() goes on to the next
\* step either way.
C22_ValidateMergeReportsAndGoesOn ==
    (output # <<>> /\ len(merged_data) >= 1)
    => /\ error = "none"
       /\ pc \in {"compare_matched_unmatched", "recode"}
       /\ Len(merge_validation) = Cardinality({k \in 1..3 : LevelChecks[k][2] \in merged_data.cols})
       /\ \A k \in 1..3 :
             IF LevelChecks[k][2] \notin merged_data.cols THEN RecordsOfLevel(k) = {}
             ELSE /\ Cardinality(RecordsOfLevel(k)) = 1
                  /\ \A j \in RecordsOfLevel(k) :
                        LET r == merge_validation[j]
                            low == 100 * r.n_matched < 80 * len(merged_data)
                        IN /\ r.n_matched = NMatched(merged_data, LevelChecks[k][2])
                           /\ r.n_matched + r.n_missing = len(merged_data)
                           /\ r.pct_matched.n * len(merged_data) = 100 * r.n_matched * r.pct_matched.d
                           /\ low <=> \E p \in DOMAIN output :
                                        output[p] = <<"  Buurt: [LOW]", "  Wijk: [LOW]",
                                                      "  Gemeente: [LOW]">>[k]
                           /\ ~low <=> \E p \in DOMAIN output :
                                        output[p] = <<"  Buurt: [OK]", "  Wijk: [OK]",
                                                      "  Gemeente: [OK]">>[k]

\* a table of five rows with a level matched for exactly 80 percent (OK) and
\* a level matched for 60 percent (LOW) has been validated and compared
C22_Witness ==
    /\ pc = "recode"
    /\ len(merged_data) = 5
    /\ \E i, j \in DOMAIN merge_validation :
          /\ merge_validation[i].n_matched = 4
          /\ merge_validation[i].pct_matched = Float(80, 1)
          /\ merge_validation[j].n_matched = 3
    /\ \E p \in DOMAIN output : output[p] = "  Buurt: [LOW]"
    /\ \E p \in DOMAIN output : output[p] = "  Wijk: [OK]"


\* validate_raw_data has run
Validated == validation # None

\* the conditions under which validate_raw_data appends an issue
IssueConditions ==
    [geo |-> /\ "Buurtcode" \in survey_raw.cols
             /\ len(survey_raw) > 0
             /\ 100 * CompleteGeo(survey_raw) < 90 * len(survey_raw),
     column |-> "Buurtcode" \notin survey_raw.cols,
     size |-> len(survey_raw) < 5000]

\* C23: validate_raw_data returns passed = False exactly when its issue list
\* is non-empty, that is when the geocode coverage is below 90%, the survey
\* has no Buurtcode column or it has fewer than 5000 respondents; and main()
\* enters the transform phase after the validation whether it passed or not.
C23_FailedValidationDoesNotStopTheRun ==
    /\ [](Validated =>
            /\ ~validation.passed <=> validation.issues # <<>>
            /\ ~validation.passed <=>
                  (IssueConditions.geo \/ IssueConditions.column \/ IssueConditions.size)
            /\ Len(validation.issues) =
                  Cardinality({k \in {"geo", "column", "size"} : IssueConditions[k]}))
    /\ [][pc = "validate_raw_data" => pc' = "create_geo_ids" /\ error' = "none"]_vars

\* a validation that passed and the transform phase entered after it
C23_WitnessPassed ==
    /\ validation # None
    /\ validation.passed
    /\ validation.survey_n = 5000
    /\ 10 * validation.survey_complete_geo = 9 * validation.survey_n
    /\ pc = "prepare_admin"
    /\ len(survey_with_geo) = 5000


\* a validation that failed on the geocode coverage alone (4499 of 5000
\* respondents geocoded) and the transform phase entered after it
C23_Witness ==
    /\ validation # None
    /\ ~validation.passed
    /\ validation.issues = <<"Low geocode coverage">>
    /\ validation.survey_n = 5000
    /\ pc = "prepare_admin"
    /\ len(survey_with_geo) = 5000
    /\ error = "none"


\* the table main() hands to the fitting function of call i
TableHanded(i) ==
    IF fits[i].caller = "fit_two_level_models" THEN analysis_sample ELSE data_final

\* the formula of call i has the occupation term
HasOccupationTerm(i) ==
    \E p \in DOMAIN fits[i].formula.terms : fits[i].formula.terms[p] = "C(occupation)"

\* C24: in the two-level and in the four-level sequence the occupation term
\* is part of the formula of M2, and of every later model, if and only if the
\* table handed to the fitting function has an occupation column with more
\* than 100 non-missing values.
C24_OccupationTermIffWellObserved ==
    \A i \in DOMAIN fits :
        (/\ fits[i].caller \in {"fit_two_level_models", "fit_four_level_models"}
         /\ fits[i].model \in {"m2", "m3", "m4"})
        => (HasOccupationTerm(i) <=>
                /\ "occupation" \in TableHanded(i).cols
                /\ Cardinality({r \in 1..len(TableHanded(i)) :
                                   notna(TableHanded(i).rows[r]["occupation"])}) > 100)

\* the same for the two-level sequence alone
OccupationTermIffWellObservedTwoLevel ==
    \A i \in DOMAIN fits :
        (fits[i].caller = "fit_two_level_models" /\ fits[i].model \in {"m2", "m3"})
        => (HasOccupationTerm(i) <=>
                /\ "occupation" \in analysis_sample.cols
                /\ Cardinality({r \in 1..len(analysis_sample) :
                                   notna(analysis_sample.rows[r]["occupation"])}) > 100)


\* C25: create_analysis_sample reports the count and the percentage of rows
\* retained for the complete-case stage and for the cluster-size stage alike.
C25_BothStagesReportCountAndPercentage ==
    pc = "fit_two_level_models"
    => /\ {sample_report[j].stage : j \in DOMAIN sample_report}
             = {"Complete cases", "After cluster filter"}
       /\ \A j \in DOMAIN sample_report :
             {"count", "pct"} \subseteq DOMAIN sample_report[j]

\* the complete-case stage is reported with its count and its percentage
CompleteCasesReported ==
    pc = "fit_two_level_models"
    => \E j \in DOMAIN sample_report :
          /\ sample_report[j].stage = "Complete cases"
          /\ {"count", "pct"} \subseteq DOMAIN sample_report[j]
          /\ sample_report[j].pct = Float(100 * sample_report[j].count, len(data_final))


-----------------------------------------------------------------------------
(* transform.py: the categorical recodes *)

\* recode_survey_variables has returned and has not been called again
RecodedOnce == pc = "create_inequality_indices"

\* the raw code of column c of respondent i is the integer k
RawCode(i, c, k) == EqualsInt(merged_data.rows[i][c], k)

\* C26: in recode_survey_variables a raw code that is not a key of the lookup
\* table (sex outside 1..3, work_status outside 1..8, occupation_class outside
\* 1..8) gives a missing value for that respondent and no error, and every
\* other respondent keeps the value of their own code.
C26_UnmappedCodesBecomeMissing ==
    (RecodedOnce /\ {"sex", "work_status", "occupation_class"} \subseteq merged_data.cols)
    => /\ error = "none"
       /\ len(data_recoded) = len(merged_data)
       /\ \A i \in 1..len(merged_data) :
             LET r == data_recoded.rows[i]
             IN /\ (\A k \in 1..3 : ~RawCode(i, "sex", k)) => isna(r["sex"])
                /\ (\A k \in 1..8 : ~RawCode(i, "work_status", k)) => isna(r["employment_status"])
                /\ (\A k \in 1..8 : ~RawCode(i, "occupation_class", k))
                      => isna(r["occupation_rank"])
                /\ RawCode(i, "sex", 1) => r["sex"] = Str(<<"Male">>)
                /\ RawCode(i, "sex", 2) => r["sex"] = Str(<<"Female">>)
                /\ RawCode(i, "work_status", 1) => r["employment_status"] = Str(<<"Employed">>)
                /\ RawCode(i, "occupation_class", 3) => r["occupation_rank"] = Float(1, 1)

\* two respondents recoded, the first with three codes outside the tables
\* and all three values missing, the second with three codes of the tables
C26_Witness ==
    /\ RecodedOnce
    /\ len(data_recoded) = 2
    /\ "sex" \in merged_data.cols
    /\ RawCode(1, "sex", 4) /\ RawCode(1, "work_status", 9) /\ RawCode(1, "occupation_class", 0)
    /\ isna(data_recoded.rows[1]["sex"])
    /\ isna(data_recoded.rows[1]["employment_status"])
    /\ isna(data_recoded.rows[1]["occupation_rank"])
    /\ data_recoded.rows[2]["sex"] = Str(<<"Female">>)
    /\ data_recoded.rows[2]["employment_status"] = Str(<<"Employed">>)
    /\ data_recoded.rows[2]["occupation_rank"] = Float(1, 1)

\* the columns recode_survey_variables computes from raw columns it leaves alone
RecomputedColumns(df) ==
    [i \in 1..len(df) |->
        [c \in {"age_raw", "age", "education", "employment_status"} \cap df.cols |->
            df.rows[i][c]]]

\* C30: recode_survey_variables writes the labels of sex over the codes, and
\* the labels are not keys of its lookup table: applied to its own output it
\* turns the sex of every respondent into a missing value, while age,
\* education and employment_status, computed from raw columns that are left
\* alone, stay as they were.
C30_RecodingAgainLosesSex ==
    [][(RecodeAgain /\ "sex" \in data_recoded.cols)
        => /\ \A i \in 1..len(data_recoded') : isna(data_recoded'.rows[i]["sex"])
           /\ RecomputedColumns(data_recoded') = RecomputedColumns(data_recoded)]_vars

\* a table recoded twice: a respondent with the code of "Male" has no sex any
\* more, and still has an age, an education and an employment status
C30_Witness ==
    /\ pc = "recoded again"
    /\ "sex" \in merged_data.cols
    /\ \E i \in 1..len(data_recoded) :
          /\ RawCode(i, "sex", 1)
          /\ isna(data_recoded.rows[i]["sex"])
          /\ notna(data_recoded.rows[i]["age"])
          /\ notna(data_recoded.rows[i]["education"])
          /\ data_recoded.rows[i]["employment_status"] = Str(<<"Employed">>)


-----------------------------------------------------------------------------
(* report.py: the significance markers *)

\* the marker for a coefficient and a standard error given as cells, from
\* the thresholds on |coef / se| compared without a division
MarkerOf(coef, se) ==
    IF isna(se) \/ se.n = 0 \/ isna(coef) THEN ""
    ELSE LET num == 100 * (IF coef.n < 0 THEN -coef.n ELSE coef.n) * se.d
             den == coef.d * (IF se.n < 0 THEN -se.n ELSE se.n)
         IN IF num > 329 * den THEN "***"
            ELSE IF num > 258 * den THEN "**"
            ELSE IF num > 196 * den THEN "*"
            ELSE ""

\* C27: _get_stars gives "***" for |coef/se| > 3.29, "**" for 2.58 < |coef/se|
\* <= 3.29, "*" for 1.96 < |coef/se| <= 2.58 and no marker otherwise, and no
\* marker when se is 0 or missing; the regression table has a cell with this
\* marker for every coefficient of every model except the intercept.
C27_StarsFollowTheThresholds ==
    model_table # None
    => \A k \in 1..4 :
          LET model == models[TableModels[k]]
          IN \A p \in DOMAIN model.params \ {"Group Var"} :
                /\ p \in DOMAIN model_table
                /\ "stars" \in DOMAIN model_table[p][k]
                /\ model_table[p][k].stars =
                      IF p = "Intercept" THEN ""
                      ELSE MarkerOf(model.params[p], model.bse[p])

\* a table with each of the four markers, drawn at the thresholds: 3.30 and
\* 3.29 in M1 and M2, -2.59 and 1.96 (of opposite sign) in M3, and a
\* standard error of 0 in M2
C27_Witness ==
    /\ model_table # None
    /\ model_table["b_perc_low40_hh"][2].stars = "***"
    /\ model_table["b_perc_low40_hh"][2].coef = Float(330, 100)
    /\ model_table["b_perc_low40_hh"][3].stars = "**"
    /\ model_table["b_perc_low40_hh"][3].coef = Float(329, 100)
    /\ model_table["b_perc_low40_hh"][4].stars = "**"
    /\ model_table["b_perc_low40_hh"][4].coef = Float(-259, 100)
    /\ model_table["age"][3].stars = ""
    /\ model_table["age"][3].se = Float(0, 1)
    /\ model_table["age"][4].stars = ""
    /\ model_table["age"][4].coef = Float(-196, 100)
    /\ "empty" \in DOMAIN model_table["age"][1]

-----------------------------------------------------------------------------
(* transform.py, merge.py, analyze.py: the tables handed to the core transformations *)

-----------------------------------------------------------------------------
(* merge.py: create_analysis_sample applied to its own result *)

\* C29: create_analysis_sample applied to the table it returned, with the
\* same include_occupation, returns a table with the same rows
C29_SamplingAgainReturnsTheSameRows ==
    [][pc = "fit_two_level_models" =>
          /\ error' = "none"
          /\ pc' = "sampled again"
          /\ analysis_sample'.rows = analysis_sample.rows]_vars

\* the second call returns the same rows whenever the first call returned
\* a respondent; on a table without rows it raises
SamplingAgainKeepsANonEmptySample ==
    [][pc = "fit_two_level_models" =>
          IF len(analysis_sample) >= 1
          THEN /\ error' = "none"
               /\ pc' = "sampled again"
               /\ analysis_sample' = analysis_sample
          ELSE /\ error' = "ZeroDivisionError"
               /\ pc' = "aborted"]_vars

\* a second call that returned a cluster of two respondents, after a first
\* call that had dropped a respondent
SampledAgain ==
    /\ pc = "sampled again"
    /\ len(analysis_sample) = MIN_CLUSTER_SIZE
    /\ len(data_final) > len(analysis_sample)

====
